---- MODULE Spec2Model ----
(***************************************************************************)
(* A model of ffmpeg-simple-merge: the serverless handler (handler.py),    *)
(* the four job pipelines (merge.py, concat.py, overlay.py, parallax.py),  *)
(* the earlier copies of two of them (processors.py and handler.py) and    *)
(* the shared execute -> validate -> read utilities (ffmpeg_utils.py).      *)
(*                                                                         *)
(* One job runs at a time.  The asset fetcher, the probe and the codec     *)
(* engine are external: each of their answers is a nondeterministic        *)
(* choice.  So is the content a read of the output file returns, which     *)
(* the code itself checks separately from the file's size.                 *)
(*                                                                         *)
(* Numbers of a request are kept in tenths (videoVolume 1.5 is 15, width   *)
(* 480 is 4800); probed durations are whole seconds.  Floating-point       *)
(* quotients are kept as exact fractions <<numerator, denominator>>.       *)
(***************************************************************************)
EXTENDS Integers, Sequences, FiniteSets, TLC

\* ------------------------------------------------------------------ bounds
\* Largest duration (seconds) the probe answers inside a job.
MaxProbe == 2
\* Largest size (bytes) of a file the codec engine leaves behind.
MaxSize == 2
\* Longest segment list handed to concat_videos.
MaxSegs == 3
\* Largest duration (seconds) given to the merge command builders on their own.
MaxDur == 20

\* --------------------------------------------------------------- fractions
RECURSIVE Gcd(_, _)
Gcd(a, b) == IF b = 0 THEN a ELSE Gcd(b, a % b)

Abs(n) == IF n < 0 THEN -n ELSE n

\* The fraction n/d in lowest terms, d # 0.
Rat(n, d) ==
    LET g == Gcd(Abs(n), Abs(d))
        s == IF d < 0 THEN -1 ELSE 1
    IN  <<(s * n) \div g, (s * d) \div g>>

RatMul(x, y) == Rat(x[1] * y[1], x[2] * y[2])
RatLeq(x, y) == x[1] * y[2] <= y[1] * x[2]

\* ------------------------------------------------------ values of a request
\* A JSON value of a request field.  "numstr" is a string holding the decimal
\* text of the number n (in tenths); "str" is any other string.
Absent == [t |-> "absent", n |-> 0, s |-> ""]
Null == [t |-> "null", n |-> 0, s |-> ""]
Num(n) == [t |-> "num", n |-> n, s |-> ""]
NumStr(n) == [t |-> "numstr", n |-> n, s |-> ""]
Str(s) == [t |-> "str", n |-> 0, s |-> s]
\* The float NaN, as the JSON text NaN and the string "nan" both give it.
NaN == [t |-> "nan", n |-> 0, s |-> ""]

\* dict.get(key, default): the default only when the key is absent.
Get(d, key, default) == IF d[key].t = "absent" THEN default ELSE d[key]

\* Python truthiness of a value fetched with dict.get(key).
Truthy(v) ==
    CASE v.t \in {"absent", "null"} -> FALSE
      [] v.t = "num" -> v.n # 0
      [] v.t \in {"numstr", "nan"} -> TRUE
      [] OTHER -> v.s # ""

\* float(v): [ok, n]; ValueError or TypeError when ok is FALSE.
ToFloat(v) ==
    CASE v.t \in {"num", "numstr"} -> [ok |-> TRUE, n |-> v.n, nan |-> FALSE]
      [] v.t = "nan" -> [ok |-> TRUE, n |-> 0, nan |-> TRUE]
      [] OTHER -> [ok |-> FALSE, n |-> 0, nan |-> FALSE]

\* The float k tenths, the value a float stands for, and the comparisons of two
\* floats: every comparison with NaN is false.
Float(k) == [ok |-> TRUE, n |-> k, nan |-> FALSE]
FloatVal(x) == IF x.nan THEN NaN ELSE Num(x.n)
FLt(x, y) == ~x.nan /\ ~y.nan /\ x.n < y.n
FLeq(x, y) == ~x.nan /\ ~y.nan /\ x.n <= y.n
FGt(x, y) == FLt(y, x)

\* int(v): truncates a number toward zero; a string must be the text of a whole
\* number ("480.5" is a ValueError).  The result stays in tenths.
ToInt(v) ==
    CASE v.t = "num" ->
           [ok |-> TRUE,
            n |-> IF v.n >= 0 THEN (v.n \div 10) * 10 ELSE -(((-v.n) \div 10) * 10)]
      [] v.t = "numstr" /\ v.n % 10 = 0 -> [ok |-> TRUE, n |-> v.n]
      [] OTHER -> [ok |-> FALSE, n |-> 0]

\* urlparse(v) raises for a value that is not a string.
UrlParses(v) == v.t \in {"str", "numstr"}

\* --------------------------------------------------------------- exceptions
NoExc == [type |-> "none", msg |-> "", stderr |-> FALSE]
Exc(type, msg) == [type |-> type, msg |-> msg, stderr |-> FALSE]
\* An exception whose message ends with the engine's captured stderr.
ExcStderr(msg) == [type |-> "Exception", msg |-> msg, stderr |-> TRUE]

\* str(e), as the handler puts it in its response.
StrOf(e) == [msg |-> e.msg, stderr |-> e.stderr]
ErrText(m) == [msg |-> m, stderr |-> FALSE]

\* ------------------------------------------------------- command elements
\* One element of an argument list: a literal, a workspace path, the text of a
\* number, or a filter graph (an ordered list of stages).
Lit(s) == [k |-> "lit", s |-> s]
Path(p) == [k |-> "path", s |-> <<p, 0>>]
\* The path of a file kept per concat segment.
SegPath(p, i) == [k |-> "path", s |-> <<p, i>>]
NumTok(r) == [k |-> "num", v |-> r]
Graph(g) == [k |-> "graph", g |-> g]

\* A filter of a stage: name, fixed option text, numeric parameter.
Flt(f, opt, val) == [f |-> f, opt |-> opt, val |-> val]
\* A stage: input pads, chained filters, output pad.
Stage(ins, filters, out) == [ins |-> ins, filters |-> filters, out |-> out]

NoCmd == [ok |-> FALSE, cmd |-> <<>>]
Built(cmd) == [ok |-> TRUE, cmd |-> cmd]

\* ---------------------------------------------------- merge command builders
\* Durations are fractions of a second, volumes fractions; a float division by
\* zero raises ZeroDivisionError (ok = FALSE).

\* merge.py, with the timestamp multiplier taken to be speed_factor itself.
build_merge_command_same_factor(video_duration, audio_duration, video_volume, audio_volume) ==
    IF RatLeq(video_duration, audio_duration)
    THEN IF audio_duration[1] = 0 \/ video_duration[1] = 0 THEN NoCmd
         ELSE LET speed_factor == Rat(video_duration[1] * audio_duration[2],
                                      video_duration[2] * audio_duration[1])
              IN  Built(<<Lit("ffmpeg"), Lit("-y"), Lit("-hwaccel"), Lit("cuda"),
                    Lit("-hwaccel_output_format"), Lit("cuda"),
                    Lit("-i"), Path("video"), Lit("-i"), Path("audio"),
                    Lit("-c:v"), Lit("h264_nvenc"), Lit("-preset"), Lit("p1"),
                    Lit("-cq"), Lit("28"), Lit("-c:a"), Lit("aac"),
                    Lit("-b:a"), Lit("128k"), Lit("-filter_complex"),
                    Graph(<<
                      Stage(<<"0:v">>, <<Flt("setpts", "PTS*", speed_factor)>>, "slowvideo"),
                      Stage(<<"0:a">>, <<Flt("atempo", "", speed_factor),
                                         Flt("volume", "", video_volume)>>, "slowaudio"),
                      Stage(<<"1:a">>, <<Flt("volume", "", audio_volume)>>, "newaudio"),
                      Stage(<<"slowaudio", "newaudio">>,
                            <<Flt("amix", "inputs=2:duration=longest:weights=0.5 0.5", <<0, 1>>)>>,
                            "mixedaudio")>>),
                    Lit("-map"), Lit("[slowvideo]"), Lit("-map"), Lit("[mixedaudio]"),
                    Lit("-t"), NumTok(audio_duration), Path("output")>>)
    ELSE Built(<<Lit("ffmpeg"), Lit("-y"), Lit("-hwaccel"), Lit("cuda"),
           Lit("-i"), Path("video"), Lit("-i"), Path("audio"),
           Lit("-c:v"), Lit("copy"), Lit("-c:a"), Lit("aac"),
           Lit("-b:a"), Lit("128k"), Lit("-filter_complex"),
           Graph(<<
             Stage(<<"0:a">>, <<Flt("volume", "", video_volume)>>, "originalvol"),
             Stage(<<"1:a">>, <<Flt("volume", "", audio_volume)>>, "newvol"),
             Stage(<<"originalvol", "newvol">>,
                   <<Flt("amix", "inputs=2:duration=first:weights=0.5 0.5", <<0, 1>>)>>,
                   "mixedaudio")>>),
           Lit("-map"), Lit("0:v:0"), Lit("-map"), Lit("[mixedaudio]"),
           Lit("-t"), NumTok(video_duration), Path("output")>>)

\* merge.py, with the branch taken on audio_duration > video_duration.
build_merge_command_strict(video_duration, audio_duration, video_volume, audio_volume) ==
    IF video_duration # audio_duration /\ RatLeq(video_duration, audio_duration)
    THEN IF audio_duration[1] = 0 \/ video_duration[1] = 0 THEN NoCmd
         ELSE LET speed_factor == Rat(video_duration[1] * audio_duration[2],
                                      video_duration[2] * audio_duration[1])
              IN  Built(<<Lit("ffmpeg"), Lit("-y"), Lit("-hwaccel"), Lit("cuda"),
                    Lit("-hwaccel_output_format"), Lit("cuda"),
                    Lit("-i"), Path("video"), Lit("-i"), Path("audio"),
                    Lit("-c:v"), Lit("h264_nvenc"), Lit("-preset"), Lit("p1"),
                    Lit("-cq"), Lit("28"), Lit("-c:a"), Lit("aac"),
                    Lit("-b:a"), Lit("128k"), Lit("-filter_complex"),
                    Graph(<<
                      Stage(<<"0:v">>, <<Flt("setpts", "PTS*", Rat(speed_factor[2], speed_factor[1]))>>,
                            "slowvideo"),
                      Stage(<<"0:a">>, <<Flt("atempo", "", speed_factor),
                                         Flt("volume", "", video_volume)>>, "slowaudio"),
                      Stage(<<"1:a">>, <<Flt("volume", "", audio_volume)>>, "newaudio"),
                      Stage(<<"slowaudio", "newaudio">>,
                            <<Flt("amix", "inputs=2:duration=longest:weights=0.5 0.5", <<0, 1>>)>>,
                            "mixedaudio")>>),
                    Lit("-map"), Lit("[slowvideo]"), Lit("-map"), Lit("[mixedaudio]"),
                    Lit("-t"), NumTok(audio_duration), Path("output")>>)
    ELSE Built(<<Lit("ffmpeg"), Lit("-y"), Lit("-hwaccel"), Lit("cuda"),
           Lit("-i"), Path("video"), Lit("-i"), Path("audio"),
           Lit("-c:v"), Lit("copy"), Lit("-c:a"), Lit("aac"),
           Lit("-b:a"), Lit("128k"), Lit("-filter_complex"),
           Graph(<<
             Stage(<<"0:a">>, <<Flt("volume", "", video_volume)>>, "originalvol"),
             Stage(<<"1:a">>, <<Flt("volume", "", audio_volume)>>, "newvol"),
             Stage(<<"originalvol", "newvol">>,
                   <<Flt("amix", "inputs=2:duration=first:weights=0.5 0.5", <<0, 1>>)>>,
                   "mixedaudio")>>),
           Lit("-map"), Lit("0:v:0"), Lit("-map"), Lit("[mixedaudio]"),
           Lit("-t"), NumTok(video_duration), Path("output")>>)

\* merge._build_merge_command.  speed_factor = video_duration / audio_duration
\* raises when audio_duration is 0, and 1/speed_factor when video_duration is 0.
_build_merge_command(video_duration, audio_duration, video_volume, audio_volume) ==
    IF RatLeq(video_duration, audio_duration)
    THEN IF audio_duration[1] = 0 \/ video_duration[1] = 0 THEN NoCmd
         ELSE LET speed_factor == Rat(video_duration[1] * audio_duration[2],
                                      video_duration[2] * audio_duration[1])
              IN  Built(<<Lit("ffmpeg"), Lit("-y"), Lit("-hwaccel"), Lit("cuda"),
                    Lit("-hwaccel_output_format"), Lit("cuda"),
                    Lit("-i"), Path("video"), Lit("-i"), Path("audio"),
                    Lit("-c:v"), Lit("h264_nvenc"), Lit("-preset"), Lit("p1"),
                    Lit("-cq"), Lit("28"), Lit("-c:a"), Lit("aac"),
                    Lit("-b:a"), Lit("128k"), Lit("-filter_complex"),
                    Graph(<<
                      Stage(<<"0:v">>, <<Flt("setpts", "PTS*", Rat(speed_factor[2], speed_factor[1]))>>,
                            "slowvideo"),
                      Stage(<<"0:a">>, <<Flt("atempo", "", speed_factor),
                                         Flt("volume", "", video_volume)>>, "slowaudio"),
                      Stage(<<"1:a">>, <<Flt("volume", "", audio_volume)>>, "newaudio"),
                      Stage(<<"slowaudio", "newaudio">>,
                            <<Flt("amix", "inputs=2:duration=longest:weights=0.5 0.5", <<0, 1>>)>>,
                            "mixedaudio")>>),
                    Lit("-map"), Lit("[slowvideo]"), Lit("-map"), Lit("[mixedaudio]"),
                    Lit("-t"), NumTok(audio_duration), Path("output")>>)
    ELSE Built(<<Lit("ffmpeg"), Lit("-y"), Lit("-hwaccel"), Lit("cuda"),
           Lit("-i"), Path("video"), Lit("-i"), Path("audio"),
           Lit("-c:v"), Lit("copy"), Lit("-c:a"), Lit("aac"),
           Lit("-b:a"), Lit("128k"), Lit("-filter_complex"),
           Graph(<<
             Stage(<<"0:a">>, <<Flt("volume", "", video_volume)>>, "originalvol"),
             Stage(<<"1:a">>, <<Flt("volume", "", audio_volume)>>, "newvol"),
             Stage(<<"originalvol", "newvol">>,
                   <<Flt("amix", "inputs=2:duration=first:weights=0.5 0.5", <<0, 1>>)>>,
                   "mixedaudio")>>),
           Lit("-map"), Lit("0:v:0"), Lit("-map"), Lit("[mixedaudio]"),
           Lit("-t"), NumTok(video_duration), Path("output")>>)

\* processors.VideoProcessor._build_merge_command.
VideoProcessor_build_merge_command(video_duration, audio_duration, video_volume, audio_volume) ==
    IF RatLeq(video_duration, audio_duration)
    THEN IF audio_duration[1] = 0 \/ video_duration[1] = 0 THEN NoCmd
         ELSE LET speed_factor == Rat(video_duration[1] * audio_duration[2],
                                      video_duration[2] * audio_duration[1])
              IN  Built(<<Lit("ffmpeg"), Lit("-y"), Lit("-hwaccel"), Lit("cuda"),
                    Lit("-hwaccel_output_format"), Lit("cuda"),
                    Lit("-i"), Path("video"), Lit("-i"), Path("audio"),
                    Lit("-c:v"), Lit("h264_nvenc"), Lit("-preset"), Lit("p1"),
                    Lit("-cq"), Lit("28"), Lit("-c:a"), Lit("aac"),
                    Lit("-b:a"), Lit("128k"), Lit("-filter_complex"),
                    Graph(<<
                      Stage(<<"0:v">>, <<Flt("setpts", "PTS*", Rat(speed_factor[2], speed_factor[1]))>>,
                            "slowvideo"),
                      Stage(<<"0:a">>, <<Flt("atempo", "", speed_factor),
                                         Flt("volume", "", video_volume)>>, "slowaudio"),
                      Stage(<<"1:a">>, <<Flt("volume", "", audio_volume)>>, "newaudio"),
                      Stage(<<"slowaudio", "newaudio">>,
                            <<Flt("amix", "inputs=2:duration=longest:weights=0.5 0.5", <<0, 1>>)>>,
                            "mixedaudio")>>),
                    Lit("-map"), Lit("[slowvideo]"), Lit("-map"), Lit("[mixedaudio]"),
                    Lit("-t"), NumTok(audio_duration), Path("output")>>)
    ELSE Built(<<Lit("ffmpeg"), Lit("-y"), Lit("-hwaccel"), Lit("cuda"),
           Lit("-i"), Path("video"), Lit("-i"), Path("audio"),
           Lit("-c:v"), Lit("copy"), Lit("-c:a"), Lit("aac"),
           Lit("-b:a"), Lit("128k"), Lit("-filter_complex"),
           Graph(<<
             Stage(<<"0:a">>, <<Flt("volume", "", video_volume)>>, "originalvol"),
             Stage(<<"1:a">>, <<Flt("volume", "", audio_volume)>>, "newvol"),
             Stage(<<"originalvol", "newvol">>,
                   <<Flt("amix", "inputs=2:duration=first:weights=0.5 0.5", <<0, 1>>)>>,
                   "mixedaudio")>>),
           Lit("-map"), Lit("0:v:0"), Lit("-map"), Lit("[mixedaudio]"),
           Lit("-t"), NumTok(video_duration), Path("output")>>)

\* The command built inline by handler.process_video.
process_video_command(video_duration, audio_duration, video_volume, audio_volume) ==
    IF RatLeq(video_duration, audio_duration)
    THEN IF audio_duration[1] = 0 \/ video_duration[1] = 0 THEN NoCmd
         ELSE LET speed_factor == Rat(video_duration[1] * audio_duration[2],
                                      video_duration[2] * audio_duration[1])
              IN  Built(<<Lit("ffmpeg"), Lit("-y"), Lit("-hwaccel"), Lit("cuda"),
                    Lit("-hwaccel_output_format"), Lit("cuda"),
                    Lit("-i"), Path("video"), Lit("-i"), Path("audio"),
                    Lit("-c:v"), Lit("h264_nvenc"), Lit("-preset"), Lit("p1"),
                    Lit("-cq"), Lit("28"), Lit("-c:a"), Lit("aac"),
                    Lit("-b:a"), Lit("128k"), Lit("-filter_complex"),
                    Graph(<<
                      Stage(<<"0:v">>, <<Flt("setpts", "PTS*", Rat(speed_factor[2], speed_factor[1]))>>,
                            "slowvideo"),
                      Stage(<<"0:a">>, <<Flt("atempo", "", speed_factor),
                                         Flt("volume", "", video_volume)>>, "slowaudio"),
                      Stage(<<"1:a">>, <<Flt("volume", "", audio_volume)>>, "newaudio"),
                      Stage(<<"slowaudio", "newaudio">>,
                            <<Flt("amix", "inputs=2:duration=longest:weights=0.5 0.5", <<0, 1>>)>>,
                            "mixedaudio")>>),
                    Lit("-map"), Lit("[slowvideo]"), Lit("-map"), Lit("[mixedaudio]"),
                    Lit("-t"), NumTok(audio_duration), Path("output")>>)
    ELSE Built(<<Lit("ffmpeg"), Lit("-y"), Lit("-hwaccel"), Lit("cuda"),
           Lit("-i"), Path("video"), Lit("-i"), Path("audio"),
           Lit("-c:v"), Lit("copy"), Lit("-c:a"), Lit("aac"),
           Lit("-b:a"), Lit("128k"), Lit("-filter_complex"),
           Graph(<<
             Stage(<<"0:a">>, <<Flt("volume", "", video_volume)>>, "originalvol"),
             Stage(<<"1:a">>, <<Flt("volume", "", audio_volume)>>, "newvol"),
             Stage(<<"originalvol", "newvol">>,
                   <<Flt("amix", "inputs=2:duration=first:weights=0.5 0.5", <<0, 1>>)>>,
                   "mixedaudio")>>),
           Lit("-map"), Lit("0:v:0"), Lit("-map"), Lit("[mixedaudio]"),
           Lit("-t"), NumTok(video_duration), Path("output")>>)

\* Reading a built command back.
\* The element following the first occurrence of the literal flag.
ArgAfter(cmd, flag) ==
    LET i == CHOOSE j \in 1..Len(cmd) - 1 :
                 /\ cmd[j] = Lit(flag)
                 /\ \A h \in 1..j - 1 : cmd[h] # Lit(flag)
    IN  cmd[i + 1]
HasArg(cmd, flag) == \E j \in 1..Len(cmd) - 1 : cmd[j] = Lit(flag)
GraphOf(cmd) == ArgAfter(cmd, "-filter_complex").g
\* The numeric parameter of filter f in the stage producing pad out.
FilterVal(cmd, out, f) ==
    LET st == CHOOSE s \in {GraphOf(cmd)[j] : j \in 1..Len(GraphOf(cmd))} : s.out = out
        fl == CHOOSE x \in {st.filters[j] : j \in 1..Len(st.filters)} : x.f = f
    IN  fl.val
HasPad(cmd, out) == \E j \in 1..Len(GraphOf(cmd)) : GraphOf(cmd)[j].out = out

\* -------------------------------------------------------------------- state
VARIABLES
    pc,               \* where the current call stands
    entry,            \* "handler", or "direct" for a pipeline called on its own
    op,               \* the pipeline function that is running
    event,            \* the event given to handler
    args,             \* the arguments of the pipeline function
    step,             \* the statement of the pipeline function reached
    ws,               \* the workspace directory: "none", "exists", "removed"
    fs,               \* the files of the workspace: path -> [src, size]
    probed,           \* answers of the probe, in call order
    cmd,              \* the command built for the main engine invocation
    file_data,        \* number of bytes read from the output file, -1 before
    processed_paths,  \* concat: paths of the processed segments
    concat_list,      \* concat: lines written to the concat list file
    exc,              \* the exception raised, NoExc when none
    ret,              \* number of bytes returned by the pipeline, -1 when none
    response,         \* the handler's response
    trace,            \* calls made to the external collaborators, in order
    bm_in,            \* arguments given to the merge command builders
    bm_out,           \* what the three builders returned for bm_in
    fn_in,            \* arguments given to a function applied on its own
    fn_out            \* what that function returned for fn_in

jobvars == <<pc, entry, op, event, args, step, ws, fs, probed, cmd, file_data,
             processed_paths, concat_list, exc, ret, response, trace>>
fnvars == <<bm_in, bm_out, fn_in, fn_out>>
vars == <<jobvars, fnvars>>

\* A call made to an external collaborator or to the file system: what (e), on
\* which asset (a, i), its answer (r), the size of the file it left (f, -1 for
\* no file) and the timeout it ran under (t, seconds).
Ev(e, a, i, r, f, t) == [e |-> e, a |-> a, i |-> i, r |-> r, f |-> f, t |-> t]

NoResponse == [pending |-> TRUE]
NoEvent == [input |-> "none", data |-> <<>>]
NoArgs == [video_volume |-> 0, audio_volume |-> 0, segments |-> <<>>,
           width |-> 0, height |-> 0, duration |-> 0]
EmptyFs == [p \in {} |-> 0]
NoBuild == [merge |-> NoCmd, processor |-> NoCmd, handler |-> NoCmd]
NoBuildIn == [video_duration |-> 0, audio_duration |-> 0,
              video_volume |-> 0, audio_volume |-> 0]
\* No function applied on its own.
NoFn == [f |-> "none"]

\* ------------------------------------------------------ pipeline functions
MergeOps == {"merge_video_audio", "VideoProcessor.process_video", "process_video"}
OldParallaxOps == {"ParallaxProcessor.create_parallax_video",
                   "handler.create_parallax_video"}

St(s, a, i) == [s |-> s, a |-> a, i |-> i]

\* The statements of merge_video_audio (merge.py:25-100), of
\* VideoProcessor.process_video and of handler.process_video, which are the same.
MergePlan ==
    <<St("download", "video", 0), St("download", "audio", 0),
      St("probe", "video", 0), St("probe", "audio", 0),
      St("build", "", 0), St("run", "subprocess.run", 0),
      St("validate", "", 0), St("read", "checked", 0), St("return", "", 0)>>

\* overlay_pip (overlay.py:28-74).
OverlayPlan ==
    <<St("download", "background", 0), St("download", "overlay", 0),
      St("probe", "background", 0), St("probe", "overlay", 0),
      St("build", "", 0), St("run", "run_ffmpeg_command", 0),
      St("validate", "", 0), St("read", "checked", 0), St("return", "", 0)>>

\* parallax.create_parallax_video (parallax.py:27-75).
ParallaxPlan ==
    <<St("download", "image", 0), St("dims", "image", 0),
      St("build", "", 0), St("run", "run_ffmpeg_command", 0),
      St("validate", "", 0), St("read", "checked", 0), St("return", "", 0)>>

\* ParallaxProcessor.create_parallax_video (processors.py:160-228) and
\* handler.create_parallax_video (handler.py:188-256): the bytes read are
\* returned as they are.
OldParallaxPlan ==
    <<St("download", "image", 0), St("dims", "image", 0),
      St("build", "", 0), St("run", "subprocess.run", 0),
      St("validate", "", 0), St("read", "unchecked", 0), St("return", "", 0)>>

\* concat_videos with every segment downloaded before the first is processed.
ConcatPlan_downloads_first(segments) ==
    [j \in 1..2 * Len(segments) |->
        LET i == (j - 1) \div 2
        IN  IF (j - 1) % 2 = 0 THEN St("url", "segment", i)
            ELSE St("download", "segment_input", i)]
    \o [j \in 1..Len(segments) |-> St("process", "segment_processed", j - 1)]
    \o <<St("write_list", "concat_list", 0), St("build", "", 0),
         St("run", "run_ffmpeg_command", 0),
         St("validate", "", 0), St("read", "checked", 0), St("return", "", 0)>>

\* concat_videos (concat.py:31-80): the loop body once per segment, then the
\* concat list and the final concatenation.
ConcatPlan(segments) ==
    [j \in 1..3 * Len(segments) |->
        LET i == (j - 1) \div 3
        IN  CASE (j - 1) % 3 = 0 -> St("url", "segment", i)
              [] (j - 1) % 3 = 1 -> St("download", "segment_input", i)
              [] OTHER -> St("process", "segment_processed", i)]
    \o <<St("write_list", "concat_list", 0), St("build", "", 0),
         St("run", "run_ffmpeg_command", 0),
         St("validate", "", 0), St("read", "checked", 0), St("return", "", 0)>>

Plan(o, a) ==
    CASE o \in MergeOps -> MergePlan
      [] o = "overlay_pip" -> OverlayPlan
      [] o = "parallax.create_parallax_video" -> ParallaxPlan
      [] o \in OldParallaxOps -> OldParallaxPlan
      [] o = "concat_videos" -> ConcatPlan(a.segments)

Cur == Plan(op, args)[step]

\* The declared output path of a pipeline.
OutPath(o) ==
    IF o \in OldParallaxOps \cup {"parallax.create_parallax_video"}
    THEN <<"parallax", 0>> ELSE <<"output", 0>>

\* The timeouts with the per-segment allowance of concat added to its floor.
Timeout_floor_plus_allowance(o, a) ==
    CASE o \in MergeOps -> 120
      [] o = "overlay_pip" -> 300
      [] o = "concat_videos" -> 300 + Len(a.segments) * 60
      [] OTHER -> a.duration + 30

\* The timeout of the main engine invocation, in seconds (duration in tenths).
Timeout(o, a) ==
    CASE o \in MergeOps -> 120
      [] o = "overlay_pip" -> 300
      [] o = "concat_videos" ->
           IF Len(a.segments) * 60 > 300 THEN Len(a.segments) * 60 ELSE 300
      [] OTHER -> a.duration + 30

\* ---------------------------------------------------------------- requests
\* Values a request may carry in a URL field, a volume field (tenths), the
\* duration field (tenths of a second), the width and the height (tenths).
UrlVals == {Absent, Str(""), Str("http://a"), Num(50)}
VolVals == {Absent, Null, Num(-1), Num(0), Num(20), Num(21), NumStr(15), Str("loud")}
DurVals == {Absent, Num(0), Num(50), Num(600), Num(601), Str("long")}
WidthVals == {Absent, Num(4790), Num(4800), Num(40969), Num(40970), Str("wide")}
HeightVals == {Absent, Num(3190), Num(3200), Num(40960), NumStr(40970), NumStr(10805)}

\* input_data with every field absent: event.get("input", {}) without "input".
EmptyInput ==
    [action |-> Absent, videoUrl |-> Absent, audioUrl |-> Absent,
     videoVolume |-> Absent, audioVolume |-> Absent, imageUrl |-> Absent,
     duration |-> Absent, width |-> Absent, height |-> Absent,
     zoomFactor |-> Absent, panDirection |-> Absent, intensity |-> Absent]

MergeInputs ==
    {[EmptyInput EXCEPT !.action = a, !.videoUrl = v, !.audioUrl = u,
                        !.videoVolume = vv, !.audioVolume = av] :
        a \in {Absent, Str("merge")}, v \in UrlVals, u \in UrlVals,
        vv \in VolVals, av \in VolVals}

\* The zoomFactor (tenths), panDirection and intensity (tenths) of a parallax
\* request: all absent, all given in range, or one of them out of range.
MotionVals ==
    {<<Absent, Absent, Absent>>, <<Num(15), Str("zoom_in"), Num(10)>>,
     <<Num(50), Absent, Absent>>, <<Absent, Str("spin"), Absent>>,
     <<Absent, Absent, Num(20)>>}

ParallaxInputs ==
    {[EmptyInput EXCEPT !.action = Str("parallax"), !.imageUrl = u,
                        !.duration = d, !.width = w, !.height = h,
                        !.zoomFactor = m[1], !.panDirection = m[2],
                        !.intensity = m[3]] :
        u \in UrlVals, d \in DurVals, w \in WidthVals, h \in HeightVals,
        m \in MotionVals}

\* Requests for the other actions; the handler reads none of their fields.
OtherInputs ==
    {[EmptyInput EXCEPT !.action = a] :
        a \in {Str("concat"), Str("overlay"), Str("overlay_pip"), Str("resize"), Null, Num(10)}}

Events ==
    {[input |-> "object", data |-> d] :
        d \in MergeInputs \cup ParallaxInputs \cup OtherInputs}
    \cup {[input |-> "absent", data |-> EmptyInput],
          [input |-> "null", data |-> EmptyInput]}

\* ------------------------------------------------------------------ handler
\* What handler does with an event before any pipeline runs: it returns a
\* response, raises, or calls a pipeline function.
Return(resp) == [kind |-> "return", response |-> resp, exc |-> NoExc,
                 op |-> "none", args |-> NoArgs]
RaiseIn(e) == [kind |-> "raise", response |-> NoResponse, exc |-> e,
               op |-> "none", args |-> NoArgs]
Call(o, a) == [kind |-> "call", response |-> NoResponse, exc |-> NoExc,
               op |-> o, args |-> a]
Error(m) == [error |-> ErrText(m)]

\* handler.py:265-301.
handler_merge(input_data) ==
    LET video_url == input_data.videoUrl
        audio_url == input_data.audioUrl
        video_volume == ToFloat(Get(input_data, "videoVolume", Num(10)))
        audio_volume == ToFloat(Get(input_data, "audioVolume", Num(10)))
    IN  IF ~Truthy(video_url) \/ ~Truthy(audio_url)
        THEN Return(Error("Both videoUrl and audioUrl are required for merge action"))
        ELSE IF ~UrlParses(video_url) \/ ~UrlParses(audio_url)
        THEN Return(Error("Invalid URL format"))
        ELSE IF ~video_volume.ok \/ ~audio_volume.ok
        THEN Return(Error("Invalid volume format"))
        ELSE IF video_volume.n < 0 \/ video_volume.n > 20
                \/ audio_volume.n < 0 \/ audio_volume.n > 20
        THEN Return(Error("Volume values must be between 0 and 2"))
        ELSE Call("process_video",
                  [NoArgs EXCEPT !.video_volume = video_volume.n,
                                 !.audio_volume = audio_volume.n])

\* handler.py:343-389.
handler_parallax(input_data) ==
    LET image_url == input_data.imageUrl
        duration == ToFloat(Get(input_data, "duration", Num(100)))
        width == ToInt(Get(input_data, "width", Num(19200)))
        height == ToInt(Get(input_data, "height", Num(10800)))
    IN  IF ~Truthy(image_url)
        THEN Return(Error("imageUrl is required for parallax action"))
        ELSE IF ~duration.ok
        THEN Return(Error("Invalid duration format"))
        ELSE IF duration.n <= 0 \/ duration.n > 600
        THEN Return(Error("Duration must be between 0 and 60 seconds"))
        ELSE IF ~width.ok \/ ~height.ok
        THEN Return(Error("Invalid resolution format"))
        ELSE IF width.n < 4800 \/ width.n > 40960 \/ height.n < 3200 \/ height.n > 40960
        THEN Return(Error("Resolution must be between 480x320 and 4096x4096"))
        ELSE IF ~UrlParses(image_url)
        THEN Return(Error("Invalid image URL format"))
        ELSE Call("handler.create_parallax_video",
                  [NoArgs EXCEPT !.duration = duration.n, !.width = width.n,
                                 !.height = height.n])

\* handler.py:260-265, 343, 406-409: the dispatch on the action field.
handler_dispatch(ev) ==
    IF ev.input = "null"
    THEN RaiseIn(Exc("AttributeError", "'NoneType' object has no attribute 'get'"))
    ELSE LET input_data == ev.data
             action == Get(input_data, "action", Str("merge"))
         IN  IF action = Str("merge") THEN handler_merge(input_data)
             ELSE IF action = Str("parallax") THEN handler_parallax(input_data)
             ELSE Return(Error("Unknown action"))

\* The messages of the handler's own validation.
ValidationErrors ==
    {Error(m) : m \in
        {"Both videoUrl and audioUrl are required for merge action",
         "Invalid URL format", "Invalid volume format",
         "Volume values must be between 0 and 2",
         "imageUrl is required for parallax action",
         "Invalid duration format", "Duration must be between 0 and 60 seconds",
         "Invalid resolution format",
         "Resolution must be between 480x320 and 4096x4096",
         "Invalid image URL format"}}

\* ------------------------------------------------------------------- calls
Idle ==
    /\ pc = "idle" /\ entry = "none" /\ op = "none" /\ event = NoEvent
    /\ args = NoArgs /\ step = 0 /\ ws = "none" /\ fs = EmptyFs
    /\ probed = <<>> /\ cmd = NoCmd /\ file_data = -1
    /\ processed_paths = <<>> /\ concat_list = <<>> /\ exc = NoExc
    /\ ret = -1 /\ response = NoResponse /\ trace = <<>>

Init == Idle /\ bm_in = NoBuildIn /\ bm_out = NoBuild /\ fn_in = NoFn /\ fn_out = NoFn

\* Volumes (tenths) and segment lists given to the pipelines called directly.
DirectVols == {0, 10, 20}
SegVals == {[url |-> u, trim_start |-> 0, trim_end |-> Null] :
               u \in {Str("http://a"), Str("http://b"), Absent}}
SegLists == UNION {[1..n -> SegVals] : n \in 0..MaxSegs}
ImageSizes == {<<1000, 1000>>, <<640, 480>>}

\* A pipeline function starts: its arguments are bound, the workspace is next.
Start(e, o, a) ==
    /\ entry' = e /\ op' = o /\ args' = a /\ pc' = "mkdtemp"
    /\ UNCHANGED <<step, ws, fs, probed, cmd, file_data, processed_paths,
                   concat_list, exc, ret, response, trace, fnvars>>

\* handler with the assets fetched before the request is validated.
handler_fetch_first ==
    /\ pc = "idle"
    /\ \E ev \in Events :
          LET r == handler_dispatch(ev)
          IN  /\ event' = ev
              /\ CASE r.kind = "call" -> Start("handler", r.op, r.args)
                   [] r.kind = "return" ->
                        /\ entry' = "handler" /\ response' = r.response /\ pc' = "done"
                        /\ trace' = IF Truthy(ev.data.videoUrl) /\ Truthy(ev.data.audioUrl)
                                    THEN <<Ev("download", "video", 0, "ok", 1, 30)>>
                                    ELSE trace
                        /\ UNCHANGED <<op, args, step, ws, fs, probed, cmd, file_data,
                                       processed_paths, concat_list, exc, ret, fnvars>>
                   [] r.kind = "raise" ->
                        /\ entry' = "handler" /\ exc' = r.exc /\ pc' = "exited"
                        /\ UNCHANGED <<op, args, step, ws, fs, probed, cmd, file_data,
                                       processed_paths, concat_list, ret, response,
                                       trace, fnvars>>

\* handler (handler.py:258-301, 343-389, 406-415), up to the call of the
\* pipeline function or the early return.
handler ==
    /\ pc = "idle"
    /\ \E ev \in Events :
          LET r == handler_dispatch(ev)
          IN  /\ event' = ev
              /\ CASE r.kind = "call" -> Start("handler", r.op, r.args)
                   [] r.kind = "return" ->
                        /\ entry' = "handler" /\ response' = r.response /\ pc' = "done"
                        /\ UNCHANGED <<op, args, step, ws, fs, probed, cmd, file_data,
                                       processed_paths, concat_list, exc, ret, trace,
                                       fnvars>>
                   [] r.kind = "raise" ->
                        /\ entry' = "handler" /\ exc' = r.exc /\ pc' = "exited"
                        /\ UNCHANGED <<op, args, step, ws, fs, probed, cmd, file_data,
                                       processed_paths, concat_list, ret, response,
                                       trace, fnvars>>

\* merge.merge_video_audio called on its own.
merge_video_audio ==
    /\ pc = "idle"
    /\ \E vv \in DirectVols, av \in DirectVols :
          Start("direct", "merge_video_audio",
                [NoArgs EXCEPT !.video_volume = vv, !.audio_volume = av])
    /\ UNCHANGED event

\* processors.VideoProcessor.process_video called on its own.
VideoProcessor_process_video ==
    /\ pc = "idle"
    /\ \E vv \in DirectVols, av \in DirectVols :
          Start("direct", "VideoProcessor.process_video",
                [NoArgs EXCEPT !.video_volume = vv, !.audio_volume = av])
    /\ UNCHANGED event

\* overlay.overlay_pip called on its own.
overlay_pip ==
    /\ pc = "idle"
    /\ Start("direct", "overlay_pip", NoArgs)
    /\ UNCHANGED event

\* parallax.create_parallax_video called on its own.
create_parallax_video ==
    /\ pc = "idle"
    /\ \E d \in {50, 600} :
          Start("direct", "parallax.create_parallax_video",
                [NoArgs EXCEPT !.duration = d, !.width = 19200, !.height = 10800])
    /\ UNCHANGED event

\* processors.ParallaxProcessor.create_parallax_video called on its own.
ParallaxProcessor_create_parallax_video ==
    /\ pc = "idle"
    /\ \E d \in {50, 600} :
          Start("direct", "ParallaxProcessor.create_parallax_video",
                [NoArgs EXCEPT !.duration = d, !.width = 19200, !.height = 10800])
    /\ UNCHANGED event

\* concat.concat_videos called on its own (concat.py:21-27): an empty list
\* raises before the workspace exists.
concat_videos ==
    /\ pc = "idle"
    /\ \E segments \in SegLists :
          IF segments = <<>>
          THEN /\ entry' = "direct" /\ op' = "concat_videos"
               /\ exc' = Exc("Exception", "No segments provided for concatenation")
               /\ pc' = "exited"
               /\ UNCHANGED <<args, step, ws, fs, probed, cmd, file_data,
                              processed_paths, concat_list, ret, response, trace,
                              fnvars>>
          ELSE Start("direct", "concat_videos",
                     [NoArgs EXCEPT !.segments = segments, !.width = 19200,
                                    !.height = 10800])
    /\ UNCHANGED event

\* ---------------------------------------------------- steps of a pipeline
\* Everything a step leaves alone besides pc, step, exc and what it names.
Raise(e) == pc' = "unwind" /\ exc' = e /\ UNCHANGED step
Advance == step' = step + 1 /\ UNCHANGED <<pc, exc>>

\* with tempfile.TemporaryDirectory() as temp_dir
TemporaryDirectory_enter ==
    /\ pc = "mkdtemp"
    /\ ws' = "exists" /\ pc' = "body" /\ step' = 1
    /\ trace' = Append(trace, Ev("mkdtemp", "", 0, "ok", -1, 0))
    /\ UNCHANGED <<entry, op, event, args, fs, probed, cmd, file_data,
                   processed_paths, concat_list, exc, ret, response, fnvars>>

DownloadError(a) ==
    CASE a = "video" -> "Failed to download video file"
      [] a = "audio" -> "Failed to download audio file"
      [] a = "background" -> "Failed to download background video"
      [] a = "overlay" -> "Failed to download overlay video"
      [] a = "image" -> "Failed to download image file"
      [] OTHER -> "Failed to download segment"

\* What the URL of the asset of step st is.
UrlOf(st) ==
    IF st.a = "segment_input" THEN args.segments[st.i + 1].url ELSE Str(st.a)

\* A failed download that is passed over: the statements go on.
download_failed_goes_on(a) == NoExc

\* if not download_file(url, path): raise Exception(...), as every pipeline
\* has it (concat.py:48-49, merge.py:39-44): the exception for asset a.
download_failed(a) == Exc("Exception", DownloadError(a))

\* utils.download_file and the caller's test of its answer.
download_file ==
    /\ pc = "body" /\ Cur.s = "download"
    /\ \E ok \in BOOLEAN :
          /\ trace' = Append(trace, Ev("download", Cur.a, Cur.i,
                                       IF ok THEN "ok" ELSE "fail", -1, 30))
          /\ IF ok
             THEN /\ fs' = (<<Cur.a, Cur.i>> :> [src |-> UrlOf(Cur), size |-> 1]) @@ fs
                  /\ Advance
             ELSE /\ LET e == download_failed(Cur.a)
                     IN  IF e = NoExc THEN Advance ELSE Raise(e)
                  /\ UNCHANGED fs
    /\ UNCHANGED <<entry, op, event, args, ws, probed, cmd, file_data,
                   processed_paths, concat_list, ret, response, fnvars>>

\* utils.get_media_duration: a duration in seconds, or the probe fails (-1).
get_media_duration ==
    /\ pc = "body" /\ Cur.s = "probe"
    /\ \E d \in -1..MaxProbe :
          /\ trace' = Append(trace, Ev("probe", Cur.a, 0,
                                       IF d >= 0 THEN "ok" ELSE "fail", -1, 10))
          /\ IF d >= 0
             THEN probed' = Append(probed, d) /\ Advance
             ELSE Raise(Exc("Exception", "ffprobe failed")) /\ UNCHANGED probed
    /\ UNCHANGED <<entry, op, event, args, ws, fs, cmd, file_data,
                   processed_paths, concat_list, ret, response, fnvars>>

\* utils.get_image_dimensions: (width, height), or the probe fails.
get_image_dimensions ==
    /\ pc = "body" /\ Cur.s = "dims"
    /\ \E d \in ImageSizes \cup {<<0, 0>>} :
          /\ trace' = Append(trace, Ev("probe", Cur.a, 0,
                                       IF d # <<0, 0>> THEN "ok" ELSE "fail", -1, 10))
          /\ IF d # <<0, 0>>
             THEN probed' = probed \o d /\ Advance
             ELSE Raise(Exc("Exception", "ffprobe failed")) /\ UNCHANGED probed
    /\ UNCHANGED <<entry, op, event, args, ws, fs, cmd, file_data,
                   processed_paths, concat_list, ret, response, fnvars>>

\* Elements standing for text built outside the merge builders: the filter a
\* named function derives from the job's arguments.
FilterText(by) == [k |-> "filter", s |-> by]

\* concat._build_concat_command (concat.py:139-155).
_build_concat_command(concat_list_path, output_path) ==
    <<Lit("ffmpeg"), Lit("-y"), Lit("-f"), Lit("concat"), Lit("-safe"), Lit("0"),
      Lit("-i"), concat_list_path,
      Lit("-c:v"), Lit("h264_nvenc"), Lit("-preset"), Lit("p4"), Lit("-cq"), Lit("23"),
      Lit("-pix_fmt"), Lit("yuv420p"), Lit("-c:a"), Lit("aac"), Lit("-b:a"), Lit("128k"),
      output_path>>

\* The argument list of overlay._build_overlay_command around its filter graph
\* (overlay.py:159-173).
OverlayCommand ==
    <<Lit("ffmpeg"), Lit("-y"), Lit("-i"), Path("background"), Lit("-i"), Path("overlay"),
      Lit("-filter_complex"), FilterText("_build_overlay_command"),
      Lit("-map"), Lit("[out]"), Lit("-map"), Lit("0:a?"),
      Lit("-c:v"), Lit("h264_nvenc"), Lit("-preset"), Lit("p4"), Lit("-cq"), Lit("23"),
      Lit("-pix_fmt"), Lit("yuv420p"), Lit("-c:a"), Lit("aac"), Lit("-b:a"), Lit("128k"),
      Path("output")>>

\* The argument list of parallax.create_parallax_video (parallax.py:54-69);
\* duration is in tenths of a second.
ParallaxCommand(duration) ==
    <<Lit("ffmpeg"), Lit("-y"), Lit("-loop"), Lit("1"), Lit("-i"), Path("image"),
      Lit("-c:v"), Lit("h264_nvenc"), Lit("-preset"), Lit("p4"), Lit("-cq"), Lit("23"),
      Lit("-pix_fmt"), Lit("yuv420p"),
      Lit("-vf"), FilterText("_generate_parallax_filter"),
      Lit("-t"), NumTok(Rat(duration, 10)), Lit("-r"), Lit("30"), Path("parallax")>>

\* The argument list of the two older create_parallax_video
\* (handler.py:211-223, processors.py:183-195).
OldParallaxCommand(duration) ==
    <<Lit("ffmpeg"), Lit("-y"), Lit("-loop"), Lit("1"), Lit("-i"), Path("image"),
      Lit("-c:v"), Lit("h264_nvenc"), Lit("-preset"), Lit("p4"), Lit("-cq"), Lit("23"),
      Lit("-pix_fmt"), Lit("yuv420p"),
      Lit("-vf"), FilterText("scale"),
      Lit("-t"), NumTok(Rat(duration, 10)), Lit("-r"), Lit("30"), Path("parallax")>>

\* The command of pipeline o, from its arguments and the probed durations.
BuildFor(o, a, p) ==
    CASE o = "merge_video_audio" ->
           _build_merge_command(Rat(p[1], 1), Rat(p[2], 1),
                                Rat(a.video_volume, 10), Rat(a.audio_volume, 10))
      [] o = "VideoProcessor.process_video" ->
           VideoProcessor_build_merge_command(Rat(p[1], 1), Rat(p[2], 1),
                                Rat(a.video_volume, 10), Rat(a.audio_volume, 10))
      [] o = "process_video" ->
           process_video_command(Rat(p[1], 1), Rat(p[2], 1),
                                Rat(a.video_volume, 10), Rat(a.audio_volume, 10))
      [] o = "concat_videos" ->
           Built(_build_concat_command(Path("concat_list"), Path("output")))
      [] o = "overlay_pip" -> Built(OverlayCommand)
      [] o = "parallax.create_parallax_video" -> Built(ParallaxCommand(a.duration))
      [] OTHER -> Built(OldParallaxCommand(a.duration))

\* The statement that builds the command.
build_command ==
    /\ pc = "body" /\ Cur.s = "build"
    /\ LET b == BuildFor(op, args, probed)
       IN  IF b.ok
           THEN cmd' = b /\ Advance
           ELSE Raise(Exc("ZeroDivisionError", "float division by zero")) /\ UNCHANGED cmd
    /\ UNCHANGED <<entry, op, event, args, ws, fs, probed, file_data,
                   processed_paths, concat_list, ret, response, trace, fnvars>>

\* The engine run with an expired timeout reported as a failed run.
run_ffmpeg_command_timeout_as_failure(via, o, r) ==
    CASE r \in {"timeout", "nonzero"} ->
           IF o \in OldParallaxOps
           THEN ExcStderr("FFmpeg parallax processing failed: ")
           ELSE ExcStderr("FFmpeg processing failed: ")
      [] OTHER -> NoExc

\* ffmpeg_utils.run_ffmpeg_command (ffmpeg_utils.py:23-39) or a bare
\* subprocess.run, followed by the caller's test of the exit code: the
\* exception raised for engine answer r, NoExc for none.
run_ffmpeg_command(via, o, r) ==
    CASE r = "timeout" ->
           IF via = "subprocess.run"
           THEN Exc("TimeoutExpired", "Command timed out")
           ELSE Exc("Exception", "FFmpeg command timed out")
      [] r = "nonzero" ->
           IF o \in OldParallaxOps
           THEN ExcStderr("FFmpeg parallax processing failed: ")
           ELSE ExcStderr("FFmpeg processing failed: ")
      [] OTHER -> NoExc

\* The main engine invocation: the engine answers r and leaves a file of size f
\* (-1: none) at the output path.
Run ==
    /\ pc = "body" /\ Cur.s = "run"
    /\ \E r \in {"ok", "nonzero", "timeout"}, f \in -1..MaxSize :
          /\ trace' = Append(trace, Ev("engine", "main", 0, r, f, Timeout(op, args)))
          /\ fs' = IF f >= 0
                   THEN (OutPath(op) :> [src |-> Str("engine"), size |-> f]) @@ fs
                   ELSE fs
          /\ LET e == run_ffmpeg_command(Cur.a, op, r)
             IN  IF e = NoExc THEN Advance ELSE Raise(e)
    /\ UNCHANGED <<entry, op, event, args, ws, probed, cmd, file_data,
                   processed_paths, concat_list, ret, response, fnvars>>

\* ffmpeg_utils.validate_output_file (ffmpeg_utils.py:58-63) and the same two
\* tests written out in the merge and older parallax pipelines.
validate_output_file(o, files) ==
    IF OutPath(o) \notin DOMAIN files
    THEN Exc("Exception", IF o \in OldParallaxOps
                          THEN "Output parallax video was not created"
                          ELSE "Output file was not created")
    ELSE IF files[OutPath(o)].size = 0
    THEN Exc("Exception", IF o \in OldParallaxOps
                          THEN "Output parallax video is empty"
                          ELSE "Output file is empty")
    ELSE NoExc

Validate ==
    /\ pc = "body" /\ Cur.s = "validate"
    /\ LET e == validate_output_file(op, fs)
       IN  IF e = NoExc THEN Advance ELSE Raise(e)
    /\ UNCHANGED <<entry, op, event, args, ws, fs, probed, cmd, file_data,
                   processed_paths, concat_list, ret, response, trace, fnvars>>

\* ffmpeg_utils.read_video_file (ffmpeg_utils.py:83-91): n bytes were read; the
\* older parallax pipelines read without the test (handler.py:253-256).
read_video_file(check, n) ==
    IF check = "checked" /\ n = 0
    THEN Exc("Exception", "File data is empty")
    ELSE NoExc

\* The read returns the whole file or nothing.
Read ==
    /\ pc = "body" /\ Cur.s = "read"
    /\ \E n \in {0, fs[OutPath(op)].size} :
          /\ file_data' = n
          /\ trace' = Append(trace, Ev("read", "output", 0, "ok", n, 0))
          /\ LET e == read_video_file(Cur.a, n)
             IN  IF e = NoExc THEN Advance ELSE Raise(e)
    /\ UNCHANGED <<entry, op, event, args, ws, fs, probed, cmd,
                   processed_paths, concat_list, ret, response, fnvars>>

\* return file_data
ReturnData ==
    /\ pc = "body" /\ Cur.s = "return"
    /\ ret' = file_data /\ pc' = "return"
    /\ UNCHANGED <<entry, op, event, args, step, ws, fs, probed, cmd, file_data,
                   processed_paths, concat_list, exc, response, trace, fnvars>>

\* ------------------------------------------------------------ concat steps
\* url = segment.get("url"); if not url: raise (concat.py:35-38).
segment_url ==
    /\ pc = "body" /\ Cur.s = "url"
    /\ IF Truthy(args.segments[Cur.i + 1].url)
       THEN Advance
       ELSE Raise(Exc("Exception", "Segment missing 'url' field"))
    /\ UNCHANGED <<entry, op, event, args, ws, fs, probed, cmd, file_data,
                   processed_paths, concat_list, ret, response, trace, fnvars>>

\* _process_segment that goes on after a non-zero exit.
process_segment_ignores_exit(r, f) ==
    CASE r = "timeout" -> Exc("Exception", "FFmpeg command timed out")
      [] f <= 0 -> Exc("Exception", "Segment processing produced no output")
      [] OTHER -> NoExc

\* concat._process_segment (concat.py:127-134): the exception raised when the
\* engine answers r and leaves a processed file of size f (-1: none).
_process_segment(r, f) ==
    CASE r = "timeout" -> Exc("Exception", "FFmpeg command timed out")
      [] r = "nonzero" -> ExcStderr("Failed to process segment: ")
      [] f <= 0 -> Exc("Exception", "Segment processing produced no output")
      [] OTHER -> NoExc

\* processed_paths with the new path put first.
processed_paths_prepend(paths, path) == <<path>> \o paths

\* processed_paths.append(processed_path) (concat.py:61).
processed_paths_append(paths, path) == Append(paths, path)

\* What the file at path was made from; nothing when there is no such file.
SrcOf(files, path) == IF path \in DOMAIN files THEN files[path].src ELSE Str("")

\* The call of _process_segment in the loop and the append after it
\* (concat.py:54-61).
process_segment ==
    /\ pc = "body" /\ Cur.s = "process"
    /\ \E r \in {"ok", "nonzero", "timeout"}, f \in -1..1 :
          /\ trace' = Append(trace, Ev("engine", "segment", Cur.i, r, f, 120))
          /\ fs' = IF f >= 0
                   THEN (<<"segment_processed", Cur.i>> :>
                           [src |-> SrcOf(fs, <<"segment_input", Cur.i>>), size |-> f]) @@ fs
                   ELSE fs
          /\ LET e == _process_segment(r, f)
             IN  IF e = NoExc
                 THEN /\ processed_paths' =
                            processed_paths_append(processed_paths,
                                                   <<"segment_processed", Cur.i>>)
                      /\ Advance
                 ELSE Raise(e) /\ UNCHANGED processed_paths
    /\ UNCHANGED <<entry, op, event, args, ws, probed, cmd, file_data,
                   concat_list, ret, response, fnvars>>

\* The concat list file: one line per processed path, in list order
\* (concat.py:64-67).
write_concat_list ==
    /\ pc = "body" /\ Cur.s = "write_list"
    /\ concat_list' = processed_paths
    /\ fs' = (<<"concat_list", 0>> :> [src |-> Str("list"), size |-> Len(processed_paths)]) @@ fs
    /\ trace' = Append(trace, Ev("write_list", "concat_list", 0, "ok",
                                 Len(processed_paths), 0))
    /\ Advance
    /\ UNCHANGED <<entry, op, event, args, ws, probed, cmd, file_data,
                   processed_paths, ret, response, fnvars>>

\* ------------------------------------------------------- leaving the job
\* TemporaryDirectory.__exit__ on a return that keeps the directory when an
\* exception is passing through.
TemporaryDirectory_exit_on_return_only ==
    /\ pc \in {"unwind", "return"}
    /\ ws' = IF pc = "return" THEN "removed" ELSE ws
    /\ fs' = IF pc = "return" THEN EmptyFs ELSE fs
    /\ trace' = IF pc = "return" THEN Append(trace, Ev("rmtree", "", 0, "ok", -1, 0))
                ELSE trace
    /\ pc' = "exited"
    /\ UNCHANGED <<entry, op, event, args, step, probed, cmd, file_data,
                   processed_paths, concat_list, exc, ret, response, fnvars>>

\* The end of the with block: the directory and everything in it is removed,
\* on a return and on an exception alike.
TemporaryDirectory_exit ==
    /\ pc \in {"unwind", "return"}
    /\ ws' = "removed" /\ fs' = EmptyFs
    /\ trace' = Append(trace, Ev("rmtree", "", 0, "ok", -1, 0))
    /\ pc' = "exited"
    /\ UNCHANGED <<entry, op, event, args, step, probed, cmd, file_data,
                   processed_paths, concat_list, exc, ret, response, fnvars>>

\* A pipeline called on its own hands its bytes or its exception to the caller.
direct_return ==
    /\ pc = "exited" /\ entry = "direct"
    /\ pc' = "done"
    /\ UNCHANGED <<entry, op, event, args, step, ws, fs, probed, cmd, file_data,
                   processed_paths, concat_list, exc, ret, response, trace, fnvars>>

\* base64.b64encode of n bytes: 4 characters for every 3 bytes begun.
B64(n) == [b64len |-> 4 * ((n + 2) \div 3)]

\* An except clause that keeps what was produced beside the error.
handler_except_partial(e) ==
    [error |-> StrOf(e),
     output |-> [video_data |-> B64(0), content_type |-> "video/mp4",
                 size_bytes |-> 0, action |-> "merge"]]

\* except Exception as e: return {"error": str(e)} (handler.py:411-415).
handler_except(e) == [error |-> StrOf(e)]

\* What handler returns after the pipeline function returned n bytes
\* (handler.py:304-341 for merge, 391-404 for parallax).
handler_output(o, n, a) ==
    IF o = "process_video"
    THEN IF n = 0
         THEN Error("Video processing returned empty data")
         ELSE [output |-> [video_data |-> B64(n), content_type |-> "video/mp4",
                           size_bytes |-> n, action |-> "merge"]]
    ELSE [output |-> [video_data |-> B64(n), content_type |-> "video/mp4",
                      size_bytes |-> n, action |-> "parallax",
                      duration |-> a.duration,
                      resolution |-> <<a.width, a.height>>]]

\* handler after the pipeline function came back, or after an exception.
handler_return ==
    /\ pc = "exited" /\ entry = "handler"
    /\ response' = IF exc # NoExc THEN handler_except(exc)
                   ELSE handler_output(op, ret, args)
    /\ pc' = "done"
    /\ UNCHANGED <<entry, op, event, args, step, ws, fs, probed, cmd, file_data,
                   processed_paths, concat_list, exc, ret, trace, fnvars>>

Next ==
    \/ handler
    \/ merge_video_audio
    \/ VideoProcessor_process_video
    \/ overlay_pip
    \/ create_parallax_video
    \/ ParallaxProcessor_create_parallax_video
    \/ concat_videos
    \/ TemporaryDirectory_enter
    \/ download_file
    \/ get_media_duration
    \/ get_image_dimensions
    \/ build_command
    \/ Run
    \/ Validate
    \/ Read
    \/ ReturnData
    \/ segment_url
    \/ process_segment
    \/ write_concat_list
    \/ TemporaryDirectory_exit
    \/ direct_return
    \/ handler_return

Spec == Init /\ [][Next]_vars

\* ------------------------------------- the merge builders on their own
BuildVols == {0, 10, 15, 20}

InitMerge ==
    /\ Idle
    /\ bm_in \in [video_duration : 0..MaxDur, audio_duration : 0..MaxDur,
                  video_volume : BuildVols, audio_volume : BuildVols]
    /\ bm_out = NoBuild
    /\ fn_in = NoFn /\ fn_out = NoFn

\* The three builders applied to the same arguments.
BuildMerge ==
    /\ bm_out = NoBuild
    /\ LET vd == Rat(bm_in.video_duration, 1)
           ad == Rat(bm_in.audio_duration, 1)
           vv == Rat(bm_in.video_volume, 10)
           av == Rat(bm_in.audio_volume, 10)
       IN  bm_out' = [merge |-> _build_merge_command(vd, ad, vv, av),
                      processor |-> VideoProcessor_build_merge_command(vd, ad, vv, av),
                      handler |-> process_video_command(vd, ad, vv, av),
                      applied |-> TRUE]
    /\ UNCHANGED <<bm_in, fn_in, fn_out, jobvars>>

NextMerge == BuildMerge

SpecMerge == InitMerge /\ [][NextMerge]_vars

\* =================================================================== claims
Idx == DOMAIN trace
Finished == pc \in {"exited", "done"}
\* The main engine invocation of the job, as it was answered.
MainRuns == {i \in Idx : trace[i].e = "engine" /\ trace[i].a = "main"}
EngineFailures == {i \in Idx : trace[i].e = "engine" /\ trace[i].r # "ok"}
Created == \E i \in Idx : trace[i].e = "mkdtemp"

\* C1: in every operation a job returns bytes only if the engine exited 0, the
\* output path exists with a non-zero size and the bytes read are non-empty;
\* after a non-zero exit, a timeout, a missing or empty file or an empty read
\* the job raises and returns nothing.
C1_BytesOnlyFromCheckedOutput ==
    /\ ret # -1 =>
          /\ \E i \in MainRuns : trace[i].r = "ok" /\ trace[i].f > 0
          /\ file_data > 0
          /\ ret = file_data
    /\ (Finished /\ (\/ \E i \in MainRuns : trace[i].r # "ok" \/ trace[i].f <= 0
                     \/ file_data = 0))
          => exc # NoExc /\ ret = -1

\* The same statement for the pipelines of merge.py, concat.py, overlay.py and
\* parallax.py and the two older merge pipelines, which do test the bytes read.
C1_CheckedPipelines ==
    op \notin OldParallaxOps => C1_BytesOnlyFromCheckedOutput

\* C2: once a job that created a workspace has returned or raised, the
\* workspace and every file in it is gone, whatever the exit path; bytes that
\* are returned were read before the removal.
C2_WorkspaceRemoved ==
    /\ (Finished /\ Created) =>
          /\ ws = "removed" /\ fs = EmptyFs
          /\ trace[Len(trace)].e = "rmtree"
    /\ (Finished /\ ~Created) => ws = "none"
    /\ (Finished /\ ret # -1) =>
          \E i \in Idx, j \in Idx :
             /\ i < j /\ trace[i].e = "read" /\ trace[i].f = ret
             /\ trace[j].e = "rmtree"
             /\ \A h \in Idx : trace[h].e = "rmtree" => h > i

\* A job whose engine invocation timed out has raised, workspace removed.
C2_Witness ==
    /\ pc = "exited" /\ ws = "removed" /\ exc # NoExc
    /\ \E i \in MainRuns : trace[i].r = "timeout"

\* C3: a request the handler rejects on validation gets an error response
\* with no download, probe or engine invocation made and no workspace created.
C3_RejectedBeforeAnyFetch ==
    (entry = "handler" /\ response \in ValidationErrors) =>
        /\ trace = <<>>
        /\ ws = "none" /\ fs = EmptyFs
        /\ pc = "done" /\ op = "none"

\* A merge request with an out-of-range volume was rejected.
C3_Witness ==
    /\ entry = "handler" /\ pc = "done"
    /\ response = Error("Volume values must be between 0 and 2")
    /\ Truthy(event.data.videoUrl)

\* C4: after an engine invocation that exited non-zero or timed out the job
\* makes no further engine invocation, and it ends raising, with no bytes.
C4_NoInvocationAfterFailure ==
    /\ \A i \in EngineFailures : \A j \in Idx : j > i => trace[j].e # "engine"
    /\ (Finished /\ EngineFailures # {}) =>
          /\ exc # NoExc /\ ret = -1
          /\ (entry = "handler" /\ pc = "done") => DOMAIN response = {"error"}

\* A concat job of three segments ended after its first segment's re-encode
\* exited non-zero.
C4_Witness ==
    /\ pc = "done" /\ op = "concat_videos" /\ Len(args.segments) = 3
    /\ \E i \in EngineFailures :
          trace[i].a = "segment" /\ trace[i].i = 0 /\ trace[i].r = "nonzero"
                                 /\ trace[i].f > 0

\* C5: a response of handler has exactly one of the keys output and error;
\* when a stage raised it is the error alone.
C5_OneOfOutputOrError ==
    (entry = "handler" /\ pc = "done") =>
        /\ DOMAIN response \in {{"output"}, {"error"}}
        /\ exc # NoExc => DOMAIN response = {"error"}

\* The handler answered a merge job whose engine invocation timed out.
C5_Witness ==
    /\ entry = "handler" /\ pc = "done" /\ exc.type = "TimeoutExpired"
    /\ DOMAIN response = {"error"}

\* C6: a request whose action is merge, concat, overlay or parallax is never
\* answered with the unknown-action error.
C6_FourActionsDispatched ==
    (/\ entry = "handler" /\ pc = "done" /\ event.input = "object"
     /\ event.data.action \in {Str("merge"), Str("concat"), Str("overlay"),
                               Str("parallax")})
        => response # Error("Unknown action")

\* What the three merge builders returned.
MergeBuilders == {bm_out.merge, bm_out.processor, bm_out.handler}

\* C7: for durations above zero the merge command limits the output (-t) to
\* the larger of the two durations: the audio duration on the stretch branch,
\* taken when audio >= video, the video duration otherwise; at equality the
\* stretch branch is taken and its speed factor is 1.
C7_ClampToLonger ==
    (bm_out # NoBuild /\ bm_in.video_duration > 0 /\ bm_in.audio_duration > 0) =>
        \A b \in MergeBuilders :
            /\ b.ok
            /\ IF bm_in.audio_duration >= bm_in.video_duration
               THEN /\ HasPad(b.cmd, "slowvideo")
                    /\ ArgAfter(b.cmd, "-t") = NumTok(Rat(bm_in.audio_duration, 1))
               ELSE /\ ~HasPad(b.cmd, "slowvideo")
                    /\ ArgAfter(b.cmd, "-c:v") = Lit("copy")
                    /\ ArgAfter(b.cmd, "-t") = NumTok(Rat(bm_in.video_duration, 1))
            /\ bm_in.audio_duration = bm_in.video_duration =>
                  /\ FilterVal(b.cmd, "slowaudio", "atempo") = <<1, 1>>
                  /\ FilterVal(b.cmd, "slowvideo", "setpts") = <<1, 1>>

\* The builders were applied to equal durations.
C7_Witness ==
    /\ bm_out # NoBuild /\ bm_out.merge.ok
    /\ bm_in.video_duration = 7 /\ bm_in.audio_duration = 7

\* C8: on the stretch branch the tempo of the video's own audio is
\* speed_factor = video/audio <= 1, the timestamp multiplier is its reciprocal,
\* and video_duration times the multiplier is audio_duration; 10 s of video
\* under 20 s of audio give 1/2, 2 and an output of 20 s.
C8_ReciprocalFactors ==
    (/\ bm_out # NoBuild
     /\ 0 < bm_in.video_duration /\ bm_in.video_duration <= bm_in.audio_duration) =>
        LET c == bm_out.merge.cmd
            speed_factor == FilterVal(c, "slowaudio", "atempo")
            multiplier == FilterVal(c, "slowvideo", "setpts")
        IN  /\ speed_factor = Rat(bm_in.video_duration, bm_in.audio_duration)
            /\ RatLeq(speed_factor, <<1, 1>>)
            /\ RatMul(speed_factor, multiplier) = <<1, 1>>
            /\ RatMul(Rat(bm_in.video_duration, 1), multiplier)
                  = Rat(bm_in.audio_duration, 1)
            /\ (bm_in.video_duration = 10 /\ bm_in.audio_duration = 20) =>
                  /\ speed_factor = <<1, 2>> /\ multiplier = <<2, 1>>
                  /\ ArgAfter(c, "-t") = NumTok(<<20, 1>>)

\* The builders were applied to 10 s of video and 20 s of audio.
C8_Witness ==
    /\ bm_out # NoBuild /\ bm_out.merge.ok
    /\ bm_in.video_duration = 10 /\ bm_in.audio_duration = 20

\* C9: when the final concatenation command is about to run, the concat list
\* has one entry per input segment and its k-th entry is the file re-encoded
\* from the download of the k-th segment's url.
C9_ListInInputOrder ==
    (op = "concat_videos" /\ pc = "body" /\ Cur.s = "run") =>
        /\ Len(concat_list) = Len(args.segments)
        /\ \A k \in 1..Len(args.segments) :
              /\ concat_list[k] = <<"segment_processed", k - 1>>
              /\ concat_list[k] \in DOMAIN fs
              /\ fs[concat_list[k]].src = args.segments[k].url
              /\ fs[concat_list[k]].size > 0
        /\ ArgAfter(cmd.cmd, "-i") = Path("concat_list")

\* Three segments, the first two of different urls, are about to be joined.
C9_Witness ==
    /\ op = "concat_videos" /\ pc = "body" /\ Cur.s = "run"
    /\ Len(args.segments) = 3
    /\ args.segments[1].url # args.segments[2].url

\* A call whose answer means the processing of a segment failed.
SegmentFailed(ev) ==
    \/ ev.e = "download" /\ ev.r = "fail"
    \/ ev.e = "engine" /\ ev.a = "segment" /\ (ev.r # "ok" \/ ev.f <= 0)

\* C10: in a concat job, once a segment's download failed, its re-encode
\* exited non-zero or timed out, or its processed file is missing or empty, no
\* later download, engine invocation or list write happens, and the job
\* raises without bytes.
C10_SegmentFailureAborts ==
    op = "concat_videos" =>
        \A i \in Idx : SegmentFailed(trace[i]) =>
            /\ \A j \in Idx : j > i => trace[j].e \notin {"download", "engine", "write_list", "read"}
            /\ ret = -1 /\ concat_list = <<>>
            /\ Finished => exc # NoExc

\* A concat job of three segments ended after its second download failed.
C10_Witness ==
    /\ op = "concat_videos" /\ pc = "done" /\ Len(args.segments) = 3
    /\ \E i \in Idx : trace[i].e = "download" /\ trace[i].r = "fail" /\ trace[i].i = 1

\* ============================================ functions applied on their own
\* A function applied on its own: fn_in is drawn from a set of argument
\* records, the action applies the function and keeps what it returned.
PureInit(inputs) ==
    /\ Idle /\ bm_in = NoBuildIn /\ bm_out = NoBuild
    /\ fn_in \in inputs /\ fn_out = NoFn
Applied(f) == fn_out # NoFn /\ fn_in.f = f

\* ------------------------------------------- the per-segment command
\* Largest trim offset (seconds) of a segment.
MaxTrim == 15

\* Trim offsets, in tenths of a second, every half second.
TrimVals == {5 * n : n \in 0..2 * MaxTrim}

\* _process_segment with the limit taken to be trim_end itself.
process_segment_command_until_end(trim_start, trim_end) ==
    <<Lit("ffmpeg"), Lit("-y")>>
    \o (IF trim_start > 0 THEN <<Lit("-ss"), NumTok(Rat(trim_start, 10))>> ELSE <<>>)
    \o <<Lit("-i"), SegPath("segment_input", 0)>>
    \o (IF trim_end # Null
        THEN <<Lit("-t"), NumTok(Rat(trim_end.n, 10))>>
        ELSE <<>>)
    \o <<Lit("-vf"), FilterText("scale_filter"),
         Lit("-c:v"), Lit("h264_nvenc"), Lit("-preset"), Lit("p4"), Lit("-cq"), Lit("23"),
         Lit("-pix_fmt"), Lit("yuv420p"), Lit("-c:a"), Lit("aac"), Lit("-b:a"), Lit("128k"),
         Lit("-ar"), Lit("44100"), Lit("-ac"), Lit("2"),
         SegPath("segment_processed", 0)>>

\* The command concat._process_segment builds (concat.py:93-125); trim_start
\* is a number in tenths of a second, trim_end is Null or Num(tenths).
process_segment_command(trim_start, trim_end) ==
    <<Lit("ffmpeg"), Lit("-y")>>
    \o (IF trim_start > 0 THEN <<Lit("-ss"), NumTok(Rat(trim_start, 10))>> ELSE <<>>)
    \o <<Lit("-i"), SegPath("segment_input", 0)>>
    \o (IF trim_end # Null
        THEN LET duration == trim_end.n - trim_start
             IN  <<Lit("-t"), NumTok(Rat(duration, 10))>>
        ELSE <<>>)
    \o <<Lit("-vf"), FilterText("scale_filter"),
         Lit("-c:v"), Lit("h264_nvenc"), Lit("-preset"), Lit("p4"), Lit("-cq"), Lit("23"),
         Lit("-pix_fmt"), Lit("yuv420p"), Lit("-c:a"), Lit("aac"), Lit("-b:a"), Lit("128k"),
         Lit("-ar"), Lit("44100"), Lit("-ac"), Lit("2"),
         SegPath("segment_processed", 0)>>

SegmentInputs ==
    {[f |-> "_process_segment", trim_start |-> s, trim_end |-> e] :
        s \in TrimVals, e \in {Null} \cup {Num(n) : n \in TrimVals}}

InitSegment == PureInit(SegmentInputs)

ApplySegment ==
    /\ fn_in.f = "_process_segment" /\ fn_out = NoFn
    /\ fn_out' = [cmd |-> process_segment_command(fn_in.trim_start, fn_in.trim_end)]
    /\ UNCHANGED <<bm_in, bm_out, fn_in, jobvars>>

NextSegment == ApplySegment

SpecSegment == InitSegment /\ [][NextSegment]_vars

\* The position of the literal flag in a command, 0 when it is not there.
PosOf(c, flag) ==
    IF \E j \in 1..Len(c) : c[j] = Lit(flag)
    THEN CHOOSE j \in 1..Len(c) : c[j] = Lit(flag) /\ \A h \in 1..j - 1 : c[h] # Lit(flag)
    ELSE 0

\* C11: for a segment with trim_start s >= 0 and trim_end e > s the command
\* seeks the input to s (no seek is written for s = 0, the start) and limits
\* the segment to e - s seconds; without trim_end the command has no -t.
C11_TrimWindow ==
    Applied("_process_segment") =>
        LET c == fn_out.cmd
            s == fn_in.trim_start
            e == fn_in.trim_end
        IN  /\ (e # Null /\ e.n > s) =>
                  /\ c[PosOf(c, "-t") + 1] = NumTok(Rat(e.n - s, 10))
                  /\ PosOf(c, "-t") > PosOf(c, "-i")
                  /\ (s = 50 /\ e.n = 150) => c[PosOf(c, "-t") + 1] = NumTok(<<10, 1>>)
            /\ IF s > 0
               THEN /\ PosOf(c, "-ss") > 0 /\ PosOf(c, "-ss") < PosOf(c, "-i")
                    /\ c[PosOf(c, "-ss") + 1] = NumTok(Rat(s, 10))
               ELSE PosOf(c, "-ss") = 0
            /\ e = Null => PosOf(c, "-t") = 0

\* The command was built for trim_start 5 s and trim_end 15 s.
C11_Witness ==
    /\ Applied("_process_segment")
    /\ fn_in.trim_start = 50 /\ fn_in.trim_end = Num(150)
    /\ PosOf(fn_out.cmd, "-ss") > 0

\* ------------------------------------------------ the final concat command
\* A command that copies its streams: -c copy, or -c:v copy with -c:a copy.
CopiesStreams(c) ==
    \/ HasArg(c, "-c") /\ ArgAfter(c, "-c") = Lit("copy")
    \/ /\ HasArg(c, "-c:v") /\ ArgAfter(c, "-c:v") = Lit("copy")
       /\ HasArg(c, "-c:a") /\ ArgAfter(c, "-c:a") = Lit("copy")

\* C12: the final concatenation command of a concat job reads the concat list
\* through the concat demuxer and copies the video and audio streams of the
\* processed segments, without passing them through an encoder again.
C12_JoinCopiesStreams ==
    (op = "concat_videos" /\ cmd.ok) =>
        /\ ArgAfter(cmd.cmd, "-f") = Lit("concat")
        /\ ArgAfter(cmd.cmd, "-i") = Path("concat_list")
        /\ CopiesStreams(cmd.cmd)

\* ------------------------------------------------- the parallax filter
RatAdd(x, y) == Rat(x[1] * y[2] + y[1] * x[2], x[2] * y[2])
RatSub(x, y) == Rat(x[1] * y[2] - y[1] * x[2], x[2] * y[2])
RatNeg(x) == <<-x[1], x[2]>>
\* x / y, y # 0.
RatDiv(x, y) == Rat(x[1] * y[2], x[2] * y[1])
\* int(x): the fraction x truncated toward zero.
IntOf(x) == IF x[1] >= 0 THEN x[1] \div x[2] ELSE -((-x[1]) \div x[2])

\* The text of a number inside an f-string, as the expression lexer of the
\* engine splits it: a minus sign, then the digits.
FmtNum(r) == IF r[1] < 0 THEN <<Lit("-"), NumTok(RatNeg(r))>> ELSE <<NumTok(r)>>
FmtInt(n) == FmtNum(Rat(n, 1))

\* x to the power n, n a natural number.
RECURSIVE RatPow(_, _)
RatPow(x, n) == IF n = 0 THEN <<1, 1>> ELSE RatMul(x, RatPow(x, n - 1))

\* The value of expression text, read as the engine's expression parser reads
\* it: + and - bind weaker than * and /, both associate to the left, a sign
\* binds to the primary after it, parentheses group, and pow, lte, gt and if
\* are calls with comma-separated arguments.  env gives the values of the
\* variables t, X and Y.  Each operator gives [v |-> value, p |-> position
\* after what was read].
RECURSIVE ParsePrimary(_, _, _), ParseTermRest(_, _, _), ParseExprRest(_, _, _)
ParseTerm(tk, p, env) == ParseTermRest(tk, ParsePrimary(tk, p, env), env)
ParseExpr(tk, p, env) == ParseExprRest(tk, ParseTerm(tk, p, env), env)
ParsePrimary(tk, p, env) ==
    CASE tk[p] = Lit("-") ->
           LET r == ParsePrimary(tk, p + 1, env) IN [v |-> RatNeg(r.v), p |-> r.p]
      [] tk[p] = Lit("(") ->
           LET r == ParseExpr(tk, p + 1, env) IN [v |-> r.v, p |-> r.p + 1]
      [] tk[p] \in {Lit("pow"), Lit("lte"), Lit("gt")} ->
           LET a == ParseExpr(tk, p + 2, env)
               b == ParseExpr(tk, a.p + 1, env)
           IN  [v |-> CASE tk[p] = Lit("pow") -> RatPow(a.v, IntOf(b.v))
                        [] tk[p] = Lit("lte") -> IF RatLeq(a.v, b.v) THEN <<1, 1>> ELSE <<0, 1>>
                        [] OTHER -> IF ~RatLeq(a.v, b.v) THEN <<1, 1>> ELSE <<0, 1>>,
                p |-> b.p + 1]
      [] tk[p] = Lit("if") ->
           LET c == ParseExpr(tk, p + 2, env)
               a == ParseExpr(tk, c.p + 1, env)
               b == ParseExpr(tk, a.p + 1, env)
           IN  [v |-> IF c.v # <<0, 1>> THEN a.v ELSE b.v, p |-> b.p + 1]
      [] tk[p] = Lit("t") -> [v |-> env.t, p |-> p + 1]
      [] tk[p] = Lit("X") -> [v |-> env.X, p |-> p + 1]
      [] tk[p] = Lit("Y") -> [v |-> env.Y, p |-> p + 1]
      [] OTHER -> [v |-> tk[p].v, p |-> p + 1]
ParseTermRest(tk, acc, env) ==
    IF acc.p <= Len(tk) /\ tk[acc.p] \in {Lit("*"), Lit("/")}
    THEN LET r == ParsePrimary(tk, acc.p + 1, env)
         IN  ParseTermRest(tk, [v |-> IF tk[acc.p] = Lit("*") THEN RatMul(acc.v, r.v)
                                       ELSE RatDiv(acc.v, r.v),
                                p |-> r.p], env)
    ELSE acc
ParseExprRest(tk, acc, env) ==
    IF acc.p <= Len(tk) /\ tk[acc.p] \in {Lit("+"), Lit("-")}
    THEN LET r == ParseTerm(tk, acc.p + 1, env)
         IN  ParseExprRest(tk, [v |-> IF tk[acc.p] = Lit("+") THEN RatAdd(acc.v, r.v)
                                       ELSE RatSub(acc.v, r.v),
                                p |-> r.p], env)
    ELSE acc
\* The value at time t of an expression of the crop filter.
Eval(tk, t) == ParseExpr(tk, 1, [t |-> t, X |-> <<0, 1>>, Y |-> <<0, 1>>]).v
\* The value at pixel (x, y) of an expression of the geq filter.
EvalAt(tk, x, y) == ParseExpr(tk, 1, [t |-> <<0, 1>>, X |-> Rat(x, 1), Y |-> Rat(y, 1)]).v

\* scale=W:H,crop=w:h:(x):(y): the two filters of the chain; every field is
\* expression text.
ParallaxFilter(scaled_width, scaled_height, output_width, output_height, x_expr, y_expr) ==
    [scale_w |-> FmtInt(scaled_width), scale_h |-> FmtInt(scaled_height),
     crop_w |-> FmtInt(output_width), crop_h |-> FmtInt(output_height),
     x |-> <<Lit("(")>> \o x_expr \o <<Lit(")")>>,
     y |-> <<Lit("(")>> \o y_expr \o <<Lit(")")>>]

\* The canvas enlarged by zoom_factor alone.
scale_factor_unfloored(zoom_factor) == Rat(zoom_factor, 10)

\* scale_factor = max(zoom_factor, 1.5) (parallax.py:99); zoom_factor in tenths.
scale_factor(zoom_factor) == IF zoom_factor > 15 THEN Rat(zoom_factor, 10) ELSE <<3, 2>>

\* parallax._generate_parallax_filter (parallax.py:78-145).  Sizes are pixels,
\* duration, zoom_factor and intensity are in tenths.
_generate_parallax_filter(img_width, img_height, output_width, output_height, duration, zoom_factor, pan_direction, intensity) ==
    LET scaled_width == IntOf(RatMul(Rat(img_width, 1), scale_factor(zoom_factor)))
        scaled_height == IntOf(RatMul(Rat(img_height, 1), scale_factor(zoom_factor)))
        max_movement_x == IntOf(RatMul(Rat(scaled_width - output_width, 1), Rat(intensity, 10)))
        max_movement_y == IntOf(RatMul(Rat(scaled_height - output_height, 1), Rat(intensity, 10)))
        dur == FmtNum(Rat(duration, 10))
        forward(m) == <<Lit("t"), Lit("/")>> \o dur \o <<Lit("*")>> \o FmtInt(m)
        backward(m) == FmtInt(m) \o <<Lit("-"), Lit("t"), Lit("/")>> \o dur
                       \o <<Lit("*")>> \o FmtInt(m)
        centre(s, o) == <<Lit("(")>> \o FmtInt(s) \o <<Lit("-")>> \o FmtInt(o)
                        \o <<Lit(")"), Lit("/"), NumTok(<<2, 1>>)>>
        zoom_expr(zoom_start, zoom_end) ==
            FmtNum(zoom_start) \o <<Lit("+"), Lit("(")>> \o FmtNum(zoom_end)
            \o <<Lit("-")>> \o FmtNum(zoom_start) \o <<Lit(")"), Lit("*"), Lit("t"), Lit("/")>>
            \o dur
        zoomed(s, o, z) == <<Lit("(")>> \o FmtInt(s) \o <<Lit("-")>> \o FmtInt(o)
                           \o <<Lit("*")>> \o z \o <<Lit(")"), Lit("/"), NumTok(<<2, 1>>)>>
        F(x_expr, y_expr) == ParallaxFilter(scaled_width, scaled_height,
                                            output_width, output_height, x_expr, y_expr)
    IN  CASE pan_direction = "right" ->
               F(forward(max_movement_x), centre(scaled_height, output_height))
          [] pan_direction = "left" ->
               F(backward(max_movement_x), centre(scaled_height, output_height))
          [] pan_direction = "down" ->
               F(centre(scaled_width, output_width), forward(max_movement_y))
          [] pan_direction = "up" ->
               F(centre(scaled_width, output_width), backward(max_movement_y))
          [] pan_direction = "zoom_in" ->
               LET z == zoom_expr(<<1, 1>>, Rat(zoom_factor, 10))
               IN  F(zoomed(scaled_width, output_width, z),
                     zoomed(scaled_height, output_height, z))
          [] pan_direction = "zoom_out" ->
               LET z == zoom_expr(Rat(zoom_factor, 10), <<1, 1>>)
               IN  F(zoomed(scaled_width, output_width, z),
                     zoomed(scaled_height, output_height, z))
          [] OTHER ->
               F(forward(max_movement_x), centre(scaled_height, output_height))

\* Probed image sizes, output sizes, durations, zoom factors and intensities
\* (tenths) the filter is generated for.
ParallaxImages == {<<1000, 1000>>, <<1001, 667>>, <<640, 480>>}
ParallaxOutputs == {<<800, 800>>, <<1920, 1080>>}
ParallaxDurations == {50, 100}
ZoomFactors == {11, 12, 15, 20}
Intensities == {1, 5, 10}
PanDirections == {"left", "right", "up", "down", "zoom_in", "zoom_out", "spin"}

ParallaxFilterInputs ==
    {[f |-> "_generate_parallax_filter", img |-> i, out |-> o, duration |-> d,
      zoom_factor |-> z, pan_direction |-> p, intensity |-> n] :
        i \in ParallaxImages, o \in ParallaxOutputs, d \in ParallaxDurations,
        z \in ZoomFactors, p \in PanDirections, n \in Intensities}

InitParallax == PureInit(ParallaxFilterInputs)

ApplyParallax ==
    /\ fn_in.f = "_generate_parallax_filter" /\ fn_out = NoFn
    /\ fn_out' = [filter |-> _generate_parallax_filter(
                                fn_in.img[1], fn_in.img[2], fn_in.out[1], fn_in.out[2],
                                fn_in.duration, fn_in.zoom_factor, fn_in.pan_direction,
                                fn_in.intensity)]
    /\ UNCHANGED <<bm_in, bm_out, fn_in, jobvars>>

NextParallax == ApplyParallax

SpecParallax == InitParallax /\ [][NextParallax]_vars


\* Sample times of a video of duration d (tenths of a second): every quarter.
Times(d) == {Rat(k * d, 40) : k \in 0..4}
PanDirs == {"left", "right", "up", "down"}
ZoomDirs == {"zoom_in", "zoom_out"}

\* The crop offsets of the generated filter at time t.
CropX(t) == Eval(fn_out.filter.x, t)
CropY(t) == Eval(fn_out.filter.y, t)
Monotonic(ts, F(_)) ==
    \/ \A t1 \in ts, t2 \in ts : RatLeq(t1, t2) => RatLeq(F(t1), F(t2))
    \/ \A t1 \in ts, t2 \in ts : RatLeq(t1, t2) => RatLeq(F(t2), F(t1))

\* The pan law for a canvas of scaled_w x scaled_h and movement ranges
\* max_x, max_y (fractions): the scale filter makes that canvas, the moving
\* offset runs between 0 and the range, monotonic over the sample times, and
\* the other offset stays at the centre.
PanLaw(scaled_w, scaled_h, max_x, max_y) ==
    LET d == Rat(fn_in.duration, 10)
        ts == Times(fn_in.duration)
        dir == fn_in.pan_direction
        centre_x == RatDiv(RatSub(scaled_w, Rat(fn_in.out[1], 1)), <<2, 1>>)
        centre_y == RatDiv(RatSub(scaled_h, Rat(fn_in.out[2], 1)), <<2, 1>>)
    IN  /\ Eval(fn_out.filter.scale_w, <<0, 1>>) = scaled_w
        /\ Eval(fn_out.filter.scale_h, <<0, 1>>) = scaled_h
        /\ dir = "right" => CropX(<<0, 1>>) = <<0, 1>> /\ CropX(d) = max_x
        /\ dir = "left" => CropX(<<0, 1>>) = max_x /\ CropX(d) = <<0, 1>>
        /\ dir = "down" => CropY(<<0, 1>>) = <<0, 1>> /\ CropY(d) = max_y
        /\ dir = "up" => CropY(<<0, 1>>) = max_y /\ CropY(d) = <<0, 1>>
        /\ dir \in {"left", "right"} =>
              /\ Monotonic(ts, CropX)
              /\ \A t \in ts : CropY(t) = centre_y
        /\ dir \in {"up", "down"} =>
              /\ Monotonic(ts, CropY)
              /\ \A t \in ts : CropX(t) = centre_x
        /\ (/\ fn_in.img = <<1000, 1000>> /\ fn_in.out = <<800, 800>>
            /\ fn_in.zoom_factor = 12 /\ fn_in.intensity = 10
            /\ fn_in.duration = 50 /\ dir = "right") =>
              /\ scaled_w = <<1500, 1>> /\ scaled_h = <<1500, 1>>
              /\ max_x = <<700, 1>>
              /\ CropX(<<0, 1>>) = <<0, 1>> /\ CropX(<<5, 1>>) = <<700, 1>>

\* max(zoom_factor, 1.5) as a fraction, zoom_factor in tenths.
MaxZoom15(z) == IF RatLeq(<<3, 2>>, Rat(z, 10)) THEN Rat(z, 10) ELSE <<3, 2>>

\* C13 as stated: for the four pan directions, with scale_factor =
\* max(zoom_factor, 1.5), scaled_dim = image_dim x scale_factor and
\* max_movement = (scaled_dim - output_dim) x intensity, the pan law holds.
C13_PanLawExactProducts ==
    (Applied("_generate_parallax_filter") /\ fn_in.pan_direction \in PanDirs) =>
        LET sf == MaxZoom15(fn_in.zoom_factor)
            sw == RatMul(Rat(fn_in.img[1], 1), sf)
            sh == RatMul(Rat(fn_in.img[2], 1), sf)
            mx == RatMul(RatSub(sw, Rat(fn_in.out[1], 1)), Rat(fn_in.intensity, 10))
            my == RatMul(RatSub(sh, Rat(fn_in.out[2], 1)), Rat(fn_in.intensity, 10))
        IN  PanLaw(sw, sh, mx, my)

\* C13, amended: the same with scaled_dim and max_movement each truncated to a
\* whole number of pixels: scaled_dim = int(image_dim x scale_factor) and
\* max_movement = int((scaled_dim - output_dim) x intensity).
C13_PanLawTruncated ==
    (Applied("_generate_parallax_filter") /\ fn_in.pan_direction \in PanDirs) =>
        LET sf == MaxZoom15(fn_in.zoom_factor)
            sw == IntOf(RatMul(Rat(fn_in.img[1], 1), sf))
            sh == IntOf(RatMul(Rat(fn_in.img[2], 1), sf))
            mx == IntOf(RatMul(Rat(sw - fn_in.out[1], 1), Rat(fn_in.intensity, 10)))
            my == IntOf(RatMul(Rat(sh - fn_in.out[2], 1), Rat(fn_in.intensity, 10)))
        IN  PanLaw(Rat(sw, 1), Rat(sh, 1), Rat(mx, 1), Rat(my, 1))

\* The filter was generated for the 1000x1000 image panned right into 800x800.
C13_Witness ==
    /\ Applied("_generate_parallax_filter")
    /\ fn_in.img = <<1000, 1000>> /\ fn_in.out = <<800, 800>>
    /\ fn_in.zoom_factor = 12 /\ fn_in.intensity = 10
    /\ fn_in.duration = 50 /\ fn_in.pan_direction = "right"
    /\ CropX(<<5, 1>>) = <<700, 1>>


\* The interpolated zoom z(t) of a zoom direction: linear from 1.0 to
\* zoom_factor (zoom_in) or from zoom_factor to 1.0 (zoom_out).
ZoomAt(dir, zoom_factor, duration, t) ==
    LET zf == Rat(zoom_factor, 10)
        zoom_start == IF dir = "zoom_in" THEN <<1, 1>> ELSE zf
        zoom_end == IF dir = "zoom_in" THEN zf ELSE <<1, 1>>
    IN  RatAdd(zoom_start,
               RatDiv(RatMul(RatSub(zoom_end, zoom_start), t), Rat(duration, 10)))

\* C14: for zoom_in and zoom_out the crop window of the generated filter is
\* output_dim x z(t) at every time t: output_dim x 1.0 at one end of the
\* video and output_dim x zoom_factor at the other.
C14_CropSizeFollowsZoom ==
    (Applied("_generate_parallax_filter") /\ fn_in.pan_direction \in ZoomDirs) =>
        \A t \in Times(fn_in.duration) :
            LET z == ZoomAt(fn_in.pan_direction, fn_in.zoom_factor, fn_in.duration, t)
            IN  /\ Eval(fn_out.filter.crop_w, t) = RatMul(Rat(fn_in.out[1], 1), z)
                /\ Eval(fn_out.filter.crop_h, t) = RatMul(Rat(fn_in.out[2], 1), z)


\* C15: for every validated parameter set, each of the six directions, every
\* probed image size and every time t of the video, the crop window of the
\* generated filter lies inside the scaled canvas: x >= 0, y >= 0,
\* x + crop_width <= scaled_width and y + crop_height <= scaled_height.
C15_CropInsideCanvas ==
    (Applied("_generate_parallax_filter") /\ fn_in.pan_direction \in PanDirs \cup ZoomDirs) =>
        \A t \in Times(fn_in.duration) :
            LET flt == fn_out.filter
            IN  /\ RatLeq(<<0, 1>>, CropX(t))
                /\ RatLeq(<<0, 1>>, CropY(t))
                /\ RatLeq(RatAdd(CropX(t), Eval(flt.crop_w, t)), Eval(flt.scale_w, t))
                /\ RatLeq(RatAdd(CropY(t), Eval(flt.crop_h, t)), Eval(flt.scale_h, t))


\* ------------------------------------------------- the overlay command
\* Largest mask side (pixels) whose every pixel is evaluated.
MaxGrid == 12

\* The offsets with the size of the square left out of the far-edge anchors.
_calculate_position_without_size(position, size, margin, output_width, output_height) ==
    CASE position = "bottom_left" -> <<margin, output_height - margin>>
      [] position = "top_right" -> <<output_width - margin, margin>>
      [] position = "top_left" -> <<margin, margin>>
      [] OTHER -> <<output_width - margin, output_height - margin>>

\* overlay._calculate_position (overlay.py:83-95).
_calculate_position(position, size, margin, output_width, output_height) ==
    LET total_size == size
    IN  CASE position = "bottom_right" ->
               <<output_width - total_size - margin, output_height - total_size - margin>>
          [] position = "bottom_left" -> <<margin, output_height - total_size - margin>>
          [] position = "top_right" -> <<output_width - total_size - margin, margin>>
          [] position = "top_left" -> <<margin, margin>>
          [] OTHER ->
               <<output_width - total_size - margin, output_height - total_size - margin>>

\* pow(X-c,2)+pow(Y-c,2) as expression text.
Dist2Text(center) ==
    <<Lit("pow"), Lit("("), Lit("X"), Lit("-")>> \o FmtInt(center)
    \o <<Lit(","), NumTok(<<2, 1>>), Lit(")"), Lit("+"),
         Lit("pow"), Lit("("), Lit("Y"), Lit("-")>> \o FmtInt(center)
    \o <<Lit(","), NumTok(<<2, 1>>), Lit(")")>>
\* pow(r,2) as expression text.
SquareText(r) == <<Lit("pow"), Lit("(")>> \o FmtInt(r) \o <<Lit(","), NumTok(<<2, 1>>), Lit(")")>>

\* a='if(lte(pow(X-c,2)+pow(Y-c,2),pow(r,2)),255,0)' (overlay.py:134, 155).
circle_alpha(center, r) ==
    <<Lit("if"), Lit("("), Lit("lte"), Lit("(")>> \o Dist2Text(center) \o <<Lit(",")>>
    \o SquareText(r) \o <<Lit(")"), Lit(","), NumTok(<<255, 1>>), Lit(","),
                          NumTok(<<0, 1>>), Lit(")")>>

\* The alpha of the border mask (overlay.py:139-140).
border_alpha(center, border_radius, inner_radius) ==
    <<Lit("if"), Lit("("), Lit("lte"), Lit("(")>> \o Dist2Text(center) \o <<Lit(",")>>
    \o SquareText(border_radius) \o <<Lit(")"), Lit(","),
         Lit("if"), Lit("("), Lit("gt"), Lit("(")>> \o Dist2Text(center) \o <<Lit(",")>>
    \o SquareText(inner_radius) \o <<Lit(")"), Lit(","), NumTok(<<255, 1>>), Lit(","),
                                     NumTok(<<0, 1>>), Lit(")"), Lit(","),
                                     NumTok(<<0, 1>>), Lit(")")>>

\* The radius of the content circle taken wider than the ring by the border.
inner_radius_widened(radius, border_width) == radius + border_width

\* inner_radius = radius - border_width (overlay.py:126).
inner_radius_of(radius, border_width) == radius - border_width

\* The two composites with the content circle put under the ring.
composite_circle_first(x_pos, y_pos) ==
    <<Stage(<<"0:v", "circle">>, <<Flt("overlay", "shortest=1", <<x_pos, y_pos>>)>>,
            "with_border"),
      Stage(<<"with_border", "border_mask">>,
            <<Flt("overlay", "shortest=1", <<x_pos, y_pos>>)>>, "out")>>

\* The two composites with the final one written before the one it consumes.
composite_out_first(x_pos, y_pos) ==
    <<Stage(<<"with_border", "circle">>,
            <<Flt("overlay", "shortest=1", <<x_pos, y_pos>>)>>, "out"),
      Stage(<<"0:v", "border_mask">>, <<Flt("overlay", "shortest=1", <<x_pos, y_pos>>)>>,
            "with_border")>>

\* The two composites of the bordered graph (overlay.py:143-146).
composite_with_border(x_pos, y_pos) ==
    <<Stage(<<"0:v", "border_mask">>, <<Flt("overlay", "shortest=1", <<x_pos, y_pos>>)>>,
            "with_border"),
      Stage(<<"with_border", "circle">>,
            <<Flt("overlay", "shortest=1", <<x_pos, y_pos>>)>>, "out")>>

\* overlay._build_overlay_command (overlay.py:104-175); the border colour is
\* text that goes into the color source unchanged.
_build_overlay_command(position, size, margin, border_width) ==
    LET pos == _calculate_position(position, size, margin, 1920, 1080)
        x_pos == pos[1]
        y_pos == pos[2]
        radius == size \div 2
        center == radius
        filter_complex ==
            IF border_width > 0
            THEN LET border_radius == radius
                     inner_radius == inner_radius_of(radius, border_width)
                 IN  <<Stage(<<"1:v">>, <<Flt("scale", "", <<size, size>>)>>, "scaled"),
                       Stage(<<"scaled">>,
                             <<Flt("format", "yuva420p", <<>>),
                               Flt("geq", "lum='p(X,Y)':cb='p(X,Y)':cr='p(X,Y)':a=",
                                   circle_alpha(center, inner_radius))>>, "circle"),
                       Stage(<<>>, <<Flt("color", "c=0x<border_color>:d=1", <<size, size>>)>>,
                             "border_color"),
                       Stage(<<"border_color">>,
                             <<Flt("format", "yuva420p", <<>>),
                               Flt("geq", "lum='p(X,Y)':cb='p(X,Y)':cr='p(X,Y)':a=",
                                   border_alpha(center, border_radius, inner_radius))>>,
                             "border_mask")>>
                     \o composite_with_border(x_pos, y_pos)
            ELSE <<Stage(<<"1:v">>, <<Flt("scale", "", <<size, size>>)>>, "scaled"),
                   Stage(<<"scaled">>,
                         <<Flt("format", "yuva420p", <<>>),
                           Flt("geq", "lum='p(X,Y)':cb='p(X,Y)':cr='p(X,Y)':a=",
                               circle_alpha(center, radius))>>, "circle"),
                   Stage(<<"0:v", "circle">>,
                         <<Flt("overlay", "shortest=1", <<x_pos, y_pos>>)>>, "out")>>
    IN  <<Lit("ffmpeg"), Lit("-y"), Lit("-i"), Path("background"), Lit("-i"), Path("overlay"),
          Lit("-filter_complex"), Graph(filter_complex),
          Lit("-map"), Lit("[out]"), Lit("-map"), Lit("0:a?"),
          Lit("-c:v"), Lit("h264_nvenc"), Lit("-preset"), Lit("p4"), Lit("-cq"), Lit("23"),
          Lit("-pix_fmt"), Lit("yuv420p"), Lit("-c:a"), Lit("aac"), Lit("-b:a"), Lit("128k"),
          Path("output")>>

\* Positions, sizes, margins and border widths the command is built for, and
\* the frame sizes of the background video it is laid over.
OverlayPositions == {"bottom_right", "bottom_left", "top_right", "top_left", "center"}
OverlaySizes == {8, 9, 200}
OverlayMargins == {0, 20}
BorderWidths == {0, 1, 3}
Canvases == {<<1920, 1080>>, <<1280, 720>>}

OverlayInputs ==
    {[f |-> "_build_overlay_command", position |-> p, size |-> s, margin |-> m,
      border_width |-> b, canvas |-> c] :
        p \in OverlayPositions, s \in OverlaySizes, m \in OverlayMargins,
        b \in BorderWidths, c \in Canvases}

InitOverlay == PureInit(OverlayInputs)

ApplyOverlay ==
    /\ fn_in.f = "_build_overlay_command" /\ fn_out = NoFn
    /\ fn_out' = [cmd |-> _build_overlay_command(fn_in.position, fn_in.size,
                                                 fn_in.margin, fn_in.border_width)]
    /\ UNCHANGED <<bm_in, bm_out, fn_in, jobvars>>

NextOverlay == ApplyOverlay

SpecOverlay == InitOverlay /\ [][NextOverlay]_vars

\* Reading the overlay graph back: the stage that produces pad out, whether
\* there is one, and the parameter of its last filter.
OverlayGraph == GraphOf(fn_out.cmd)
HasStage(out) == \E j \in 1..Len(OverlayGraph) : OverlayGraph[j].out = out
StageIdx(out) == CHOOSE j \in 1..Len(OverlayGraph) : OverlayGraph[j].out = out
StageOut(out) == OverlayGraph[StageIdx(out)]
LastVal(out) == StageOut(out).filters[Len(StageOut(out).filters)].val

\* The offset the anchor position stands for on a canvas of w x h.
AnchorOffset(position, size, margin, w, h) ==
    CASE position = "bottom_left" -> <<margin, h - size - margin>>
      [] position = "top_right" -> <<w - size - margin, margin>>
      [] position = "top_left" -> <<margin, margin>>
      [] OTHER -> <<w - size - margin, h - size - margin>>

\* C16: for a background canvas of W x H the offset written into the overlay
\* command is (W-size-margin, H-size-margin) for bottom_right, (margin,
\* H-size-margin) for bottom_left, (W-size-margin, margin) for top_right,
\* (margin, margin) for top_left, and the bottom_right offset for any other
\* position; size 200, margin 20, top_left on 1920x1080 gives (20, 20).
C16_OffsetFollowsCanvas ==
    Applied("_build_overlay_command") =>
        /\ LastVal("out") = AnchorOffset(fn_in.position, fn_in.size, fn_in.margin,
                                         fn_in.canvas[1], fn_in.canvas[2])
        /\ (/\ fn_in.size = 200 /\ fn_in.margin = 20 /\ fn_in.position = "top_left"
            /\ fn_in.canvas = <<1920, 1080>>) => LastVal("out") = <<20, 20>>

\* The same offsets on a canvas of 1920x1080, the one the command is built for.
C16_OffsetOnDefaultCanvas ==
    (Applied("_build_overlay_command") /\ fn_in.canvas = <<1920, 1080>>) =>
        C16_OffsetFollowsCanvas


\* Pixel coordinates of a size x size mask that are evaluated: all of them up
\* to MaxGrid, for a larger mask the edges, the centre and both sides of the
\* circle of radius r.
Coords(size, r) ==
    IF size <= MaxGrid THEN 0..size - 1
    ELSE LET c == size \div 2
         IN  {0, 1, c - r - 1, c - r, c - r + 1, c - 1, c, c + 1, c + r - 1, c + r,
              c + r + 1, size - 2, size - 1} \cap 0..size - 1
Opaque(alpha, x, y) == EvalAt(alpha, x, y) = <<255, 1>>
\* The squared distance of pixel (x, y) from (center, center), center a fraction.
Dist2(x, y, center) ==
    RatAdd(RatPow(RatSub(Rat(x, 1), center), 2), RatPow(RatSub(Rat(y, 1), center), 2))

\* The content mask is the disc of radius inner_radius around (center, center)
\* and is symmetric under the point reflection through it.
MaskLaw(center, inner_radius) ==
    LET alpha == LastVal("circle")
        cs == Coords(fn_in.size, fn_in.size \div 2 - fn_in.border_width)
        mirror(x) == RatSub(RatMul(<<2, 1>>, center), Rat(x, 1))
    IN  /\ \A x \in cs, y \in cs :
              Opaque(alpha, x, y) <=> RatLeq(Dist2(x, y, center), RatPow(inner_radius, 2))
        /\ \A x \in cs, y \in cs, x2 \in cs, y2 \in cs :
              (Rat(x2, 1) = mirror(x) /\ Rat(y2, 1) = mirror(y))
                  => (Opaque(alpha, x, y) <=> Opaque(alpha, x2, y2))

\* C17 as stated: pixel (X,Y) of the content mask is opaque iff
\* (X-center)^2 + (Y-center)^2 <= inner_radius^2 with center = size/2 and
\* inner_radius = size/2 - border_width (size/2 without a border), and the
\* mask is symmetric about the centre.
C17_MaskAboutHalfSize ==
    Applied("_build_overlay_command") =>
        LET half == Rat(fn_in.size, 2)
        IN  MaskLaw(half, IF fn_in.border_width > 0
                          THEN RatSub(half, Rat(fn_in.border_width, 1)) ELSE half)

\* C17, amended: the same with center = size // 2 and inner_radius =
\* size // 2 - border_width (size // 2 without a border), // being the
\* division that rounds down to a whole pixel.
C17_MaskAboutFloorHalf ==
    Applied("_build_overlay_command") =>
        LET half == fn_in.size \div 2
        IN  MaskLaw(Rat(half, 1), IF fn_in.border_width > 0
                                  THEN Rat(half - fn_in.border_width, 1) ELSE Rat(half, 1))

\* A mask of odd side 9 with a border of 1 was built: its centre pixel is
\* opaque, its corner is not.
C17_Witness ==
    /\ Applied("_build_overlay_command")
    /\ fn_in.size = 9 /\ fn_in.border_width = 1
    /\ Opaque(LastVal("circle"), 4, 4) /\ ~Opaque(LastVal("circle"), 0, 0)


\* C18: with a border the graph lays the border ring over the background
\* first and the content circle over that result last, both at the same
\* offset; the ring is opaque only where inner_radius^2 < d^2 <= (size/2)^2,
\* d the distance from the mask centre and inner_radius the radius of the
\* content circle, so no pixel is opaque in both masks.  Without a border
\* there is no ring stage and the circle is laid over the background directly.
C18_RingUnderCircle ==
    Applied("_build_overlay_command") =>
        IF fn_in.border_width > 0
        THEN LET c == fn_in.size \div 2
                 inner_radius == c - fn_in.border_width
                 ring == LastVal("border_mask")
                 circle == LastVal("circle")
                 cs == Coords(fn_in.size, inner_radius)
             IN  /\ HasStage("border_mask") /\ HasStage("with_border") /\ HasStage("circle")
                 /\ StageOut("with_border").ins = <<"0:v", "border_mask">>
                 /\ StageOut("out").ins = <<"with_border", "circle">>
                 /\ StageIdx("with_border") < StageIdx("out")
                 /\ StageIdx("out") = Len(OverlayGraph)
                 /\ StageOut("with_border").filters[1].f = "overlay"
                 /\ StageOut("out").filters[1].f = "overlay"
                 /\ LastVal("with_border") = LastVal("out")
                 /\ \A x \in cs, y \in cs :
                       /\ Opaque(ring, x, y) =>
                             /\ ~RatLeq(Dist2(x, y, Rat(c, 1)), Rat(inner_radius * inner_radius, 1))
                             /\ RatLeq(Dist2(x, y, Rat(c, 1)), RatPow(Rat(fn_in.size, 2), 2))
                       /\ ~(Opaque(ring, x, y) /\ Opaque(circle, x, y))
        ELSE /\ ~HasStage("border_mask") /\ ~HasStage("with_border")
             /\ StageOut("out").ins = <<"0:v", "circle">>
             /\ StageOut("out").filters[1].f = "overlay"
             /\ StageIdx("out") = Len(OverlayGraph)

\* A 200 pixel overlay with a border of 3 was built: the pixel at the right
\* edge of the circle belongs to the ring, not to the content.
C18_Witness ==
    /\ Applied("_build_overlay_command")
    /\ fn_in.size = 200 /\ fn_in.border_width = 3
    /\ HasStage("border_mask")
    /\ Opaque(LastVal("border_mask"), 199, 100)
    /\ ~Opaque(LastVal("circle"), 199, 100)


\* ----------------------------------------------------------- the validators
\* A dict is a function from the keys it has to values; numbers are in tenths.
\* d.get(key) and d.get(key, default).
DictGet(d, key, default) == IF key \in DOMAIN d THEN d[key] ELSE default
EmptyDict == [k \in {} |-> Null]
\* A list value and a dict value inside a request.
List(items) == [t |-> "list", n |-> 0, s |-> "", items |-> items]
Dict(d) == [t |-> "dict", n |-> 0, s |-> "", d |-> d]
\* A string kept character by character.
Chars(cs) == [t |-> "chars", n |-> 0, s |-> "", cs |-> cs]

\* not v, for a value that may also be a list, a dict or a character string.
Falsy(v) ==
    CASE v.t = "list" -> v.items = <<>>
      [] v.t = "dict" -> DOMAIN v.d = {}
      [] v.t = "chars" -> v.cs = <<>>
      [] OTHER -> ~Truthy(v)
\* urlparse(v) raises for anything but a string.
UrlOk(v) == v.t \in {"str", "numstr", "chars"}

\* What a validator returns: (is_valid, error, params).
Invalid(msg) == [ok |-> FALSE, error |-> msg, params |-> EmptyDict]
Valid(params) == [ok |-> TRUE, error |-> "", params |-> params]

\* validators.InputValidator.validate_merge_inputs (validators.py:9-41).
validate_merge_inputs(input_data) ==
    LET video_url == DictGet(input_data, "videoUrl", Null)
        audio_url == DictGet(input_data, "audioUrl", Null)
        video_volume == ToFloat(DictGet(input_data, "videoVolume", Num(10)))
        audio_volume == ToFloat(DictGet(input_data, "audioVolume", Num(10)))
    IN  IF Falsy(video_url) \/ Falsy(audio_url)
        THEN Invalid("Both videoUrl and audioUrl are required for merge action")
        ELSE IF ~UrlOk(video_url) \/ ~UrlOk(audio_url)
        THEN Invalid("Invalid URL format")
        ELSE IF ~video_volume.ok \/ ~audio_volume.ok
        THEN Invalid("Invalid volume format")
        ELSE IF FLt(video_volume, Float(0)) \/ FGt(video_volume, Float(20))
                \/ FLt(audio_volume, Float(0)) \/ FGt(audio_volume, Float(20))
        THEN Invalid("Volume values must be between 0 and 2")
        ELSE Valid([video_url |-> video_url, audio_url |-> audio_url,
                    video_volume |-> FloatVal(video_volume),
                    audio_volume |-> FloatVal(audio_volume)])

\* The resolution test shared by the parallax and concat validators
\* (validators.py:71-78, 247-254): "" when the resolution is accepted.
ResolutionError(width, height) ==
    IF ~width.ok \/ ~height.ok THEN "Invalid resolution format"
    ELSE IF width.n < 4800 \/ width.n > 40960 \/ height.n < 3200 \/ height.n > 40960
    THEN "Resolution must be between 480x320 and 4096x4096"
    ELSE ""

\* validators.InputValidator.validate_parallax_inputs (validators.py:44-110).
validate_parallax_inputs(input_data) ==
    LET image_url == DictGet(input_data, "imageUrl", Null)
        duration == ToFloat(DictGet(input_data, "duration", Num(100)))
        width == ToInt(DictGet(input_data, "width", Num(19200)))
        height == ToInt(DictGet(input_data, "height", Num(10800)))
        zoom_factor == ToFloat(DictGet(input_data, "zoomFactor", Num(12)))
        pan_direction == DictGet(input_data, "panDirection", Str("right"))
        intensity == ToFloat(DictGet(input_data, "intensity", Num(5)))
    IN  IF Falsy(image_url) THEN Invalid("imageUrl is required for parallax action")
        ELSE IF ~UrlOk(image_url) THEN Invalid("Invalid image URL format")
        ELSE IF ~duration.ok THEN Invalid("Invalid duration format")
        ELSE IF FLeq(duration, Float(0)) \/ FGt(duration, Float(600))
        THEN Invalid("Duration must be between 0 and 60 seconds")
        ELSE IF ResolutionError(width, height) # ""
        THEN Invalid(ResolutionError(width, height))
        ELSE IF ~zoom_factor.ok THEN Invalid("Invalid zoom factor format")
        ELSE IF FLt(zoom_factor, Float(11)) \/ FGt(zoom_factor, Float(20))
        THEN Invalid("Zoom factor must be between 1.1 and 2.0")
        ELSE IF pan_direction \notin {Str("left"), Str("right"), Str("up"), Str("down"),
                                      Str("zoom_in"), Str("zoom_out")}
        THEN Invalid("Pan direction must be one of")
        ELSE IF ~intensity.ok THEN Invalid("Invalid intensity format")
        ELSE IF FLt(intensity, Float(1)) \/ FGt(intensity, Float(10))
        THEN Invalid("Intensity must be between 0.1 and 1.0")
        ELSE Valid([image_url |-> image_url, duration |-> FloatVal(duration),
                    width |-> Num(width.n), height |-> Num(height.n),
                    zoom_factor |-> FloatVal(zoom_factor), pan_direction |-> pan_direction,
                    intensity |-> FloatVal(intensity)])

\* str.lstrip('#') and int(s, 16) on a string kept character by character.
RECURSIVE Lstrip(_)
Lstrip(cs) == IF cs # <<>> /\ Head(cs) = "#" THEN Lstrip(Tail(cs)) ELSE cs
HexDigits == {"0", "1", "2", "3", "4", "5", "6", "7", "8", "9",
              "a", "b", "c", "d", "e", "f", "A", "B", "C", "D", "E", "F"}
\* str.strip() of blanks, at the start and at the end.
RECURSIVE StripLeft(_)
StripLeft(cs) == IF cs # <<>> /\ Head(cs) = " " THEN StripLeft(Tail(cs)) ELSE cs
RECURSIVE StripRight(_)
StripRight(cs) ==
    IF cs # <<>> /\ cs[Len(cs)] = " " THEN StripRight(SubSeq(cs, 1, Len(cs) - 1)) ELSE cs
\* The digits of an integer literal: hexadecimal digits, single underscores
\* allowed between two of them.
DigitsOk(cs) ==
    /\ cs # <<>> /\ cs[1] \in HexDigits /\ cs[Len(cs)] \in HexDigits
    /\ \A j \in 1..Len(cs) : cs[j] \in HexDigits \cup {"_"}
    /\ \A j \in 1..Len(cs) - 1 : ~(cs[j] = "_" /\ cs[j + 1] = "_")
\* int(s, 16) does not raise ValueError: blanks around the literal, a sign, a
\* 0x prefix (an underscore may follow it) and then the digits.
ParsesBase16(s) ==
    LET stripped == StripRight(StripLeft(s))
        unsigned == IF stripped # <<>> /\ Head(stripped) \in {"+", "-"}
                    THEN Tail(stripped) ELSE stripped
        prefixed == Len(unsigned) >= 2 /\ unsigned[1] = "0" /\ unsigned[2] \in {"x", "X"}
        body == IF prefixed THEN SubSeq(unsigned, 3, Len(unsigned)) ELSE unsigned
    IN  IF prefixed /\ body # <<>> /\ Head(body) = "_"
        THEN DigitsOk(Tail(body))
        ELSE DigitsOk(body)

\* validators.InputValidator.validate_overlay_pip_inputs (validators.py:113-185).
validate_overlay_pip_inputs(input_data) ==
    LET background_url == DictGet(input_data, "backgroundUrl", Null)
        overlay_url == DictGet(input_data, "overlayUrl", Null)
        position == DictGet(input_data, "position", Str("bottom_right"))
        size == ToInt(DictGet(input_data, "size", Num(2000)))
        margin == ToInt(DictGet(input_data, "margin", Num(200)))
        border_width == ToInt(DictGet(input_data, "borderWidth", Num(30)))
        border_color == DictGet(input_data, "borderColor",
                                Chars(<<"#", "f", "f", "f", "f", "f", "f">>))
    IN  IF Falsy(background_url)
        THEN Invalid("backgroundUrl is required for overlay_pip action")
        ELSE IF Falsy(overlay_url)
        THEN Invalid("overlayUrl is required for overlay_pip action")
        ELSE IF ~UrlOk(background_url) \/ ~UrlOk(overlay_url)
        THEN Invalid("Invalid URL format")
        ELSE IF position \notin {Str("bottom_right"), Str("bottom_left"),
                                 Str("top_right"), Str("top_left")}
        THEN Invalid("Position must be one of")
        ELSE IF ~size.ok THEN Invalid("Invalid size format")
        ELSE IF size.n < 500 \/ size.n > 8000
        THEN Invalid("Size must be between 50 and 800 pixels")
        ELSE IF ~margin.ok THEN Invalid("Invalid margin format")
        ELSE IF margin.n < 0 \/ margin.n > 2000
        THEN Invalid("Margin must be between 0 and 200 pixels")
        ELSE IF ~border_width.ok THEN Invalid("Invalid border width format")
        ELSE IF border_width.n < 0 \/ border_width.n > 200
        THEN Invalid("Border width must be between 0 and 20 pixels")
        ELSE IF border_color.t # "chars" THEN Invalid("Border color must be a string")
        ELSE IF Len(Lstrip(border_color.cs)) # 6
        THEN Invalid("Border color must be in hex format (e.g., #ffffff)")
        ELSE IF ~ParsesBase16(Lstrip(border_color.cs))
        THEN Invalid("Invalid hex color format")
        ELSE Valid([background_url |-> background_url, overlay_url |-> overlay_url,
                    position |-> position, size |-> Num(size.n), margin |-> Num(margin.n),
                    border_width |-> Num(border_width.n),
                    border_color |-> Chars(<<"#">> \o Lstrip(border_color.cs))])

\* The body of the loop over the segments (validators.py:208-244), for one
\* segment: the error it returns, or the validated segment it appends.
validate_segment(segment) ==
    IF segment.t # "dict" THEN Invalid("Segment must be an object")
    ELSE LET url == DictGet(segment.d, "url", Null)
             trim_start == ToFloat(DictGet(segment.d, "trim_start", Num(0)))
             trim_end == DictGet(segment.d, "trim_end", Null)
         IN  IF Falsy(url) THEN Invalid("Segment missing 'url' field")
             ELSE IF ~UrlOk(url) THEN Invalid("Segment has invalid URL format")
             ELSE IF ~trim_start.ok THEN Invalid("Segment has invalid trim_start format")
             ELSE IF FLt(trim_start, Float(0))
             THEN Invalid("Segment trim_start cannot be negative")
             ELSE IF trim_end # Null /\ ~ToFloat(trim_end).ok
             THEN Invalid("Segment has invalid trim_end format")
             ELSE IF trim_end # Null /\ FLeq(ToFloat(trim_end), trim_start)
             THEN Invalid("Segment trim_end must be greater than trim_start")
             ELSE Valid(Dict([url |-> url, trim_start |-> FloatVal(trim_start),
                              trim_end |-> IF trim_end = Null THEN Null
                                           ELSE FloatVal(ToFloat(trim_end))]))

\* The loop over the segments (validators.py:207-244): the error of the first
\* segment that has one, or the validated segments in order.
validate_segments(segments) ==
    LET bad == {i \in 1..Len(segments) : ~validate_segment(segments[i]).ok}
    IN  IF bad # {}
        THEN validate_segment(segments[CHOOSE i \in bad : \A j \in bad : i <= j])
        ELSE Valid([i \in 1..Len(segments) |-> validate_segment(segments[i]).params])

\* validators.InputValidator.validate_concat_inputs (validators.py:188-261).
validate_concat_inputs(input_data) ==
    LET segments == DictGet(input_data, "segments", Null)
        width == ToInt(DictGet(input_data, "width", Num(19200)))
        height == ToInt(DictGet(input_data, "height", Num(10800)))
    IN  IF Falsy(segments) THEN Invalid("segments array is required for concat action")
        ELSE IF segments.t # "list" THEN Invalid("segments must be an array")
        ELSE IF Len(segments.items) > 50 THEN Invalid("Maximum 50 segments allowed")
        ELSE LET vs == validate_segments(segments.items)
             IN  IF ~vs.ok THEN vs
                 ELSE IF ResolutionError(width, height) # ""
                 THEN Invalid(ResolutionError(width, height))
                 ELSE Valid([segments |-> List(vs.params), width |-> Num(width.n),
                             height |-> Num(height.n)])


\* Requests handed to the validators: every combination of the listed values
\* of each key, the key being left out as well.
Field(key, vals) == {EmptyDict} \cup {key :> v : v \in vals}

MergeRequests ==
    {a @@ b @@ c @@ d :
        a \in Field("videoUrl", {Str("http://v"), Str(""), Num(50)}),
        b \in Field("audioUrl", {Str("http://a")}),
        c \in Field("videoVolume", {Num(0), Num(15), NumStr(5), Num(21), Str("loud")}),
        d \in Field("audioVolume", {Num(20), Null})}

ParallaxRequests ==
    {a @@ b @@ c @@ d @@ e @@ g @@ h :
        a \in Field("imageUrl", {Str("http://i")}),
        b \in Field("duration", {Num(50), Num(0), NumStr(300)}),
        c \in Field("width", {Num(8000), Num(8005), Num(100)}),
        d \in Field("height", {NumStr(8000)}),
        e \in Field("zoomFactor", {Num(20), Num(25)}),
        g \in Field("panDirection", {Str("zoom_in"), Str("spin")}),
        h \in Field("intensity", {Num(10)})}

OverlayRequests ==
    {a @@ b @@ c @@ d @@ e @@ g @@ h :
        a \in Field("backgroundUrl", {Str("http://b")}),
        b \in Field("overlayUrl", {Str("http://o")}),
        c \in Field("position", {Str("top_left"), Str("center")}),
        d \in Field("size", {Num(500), Num(505), Num(490)}),
        e \in Field("margin", {Num(0)}),
        g \in Field("borderWidth", {Num(0), NumStr(200)}),
        h \in Field("borderColor",
                    {Chars(<<"f", "f", "0", "0", "0", "0">>),
                     Chars(<<"#", "#", "0", "0", "f", "f", "0", "0">>),
                     Chars(<<"#", "f", "f", "f">>),
                     Chars(<<"#", "g", "g", "g", "g", "g", "g">>),
                     Chars(<<"F", "F", "A", "A", "0", "0">>),
                     Chars(<<"0", "x", "f", "f", "f", "f">>),
                     Chars(<<"#", "+", "1", "2", "3", "4", "5">>),
                     Num(10)})}

\* Most segments of a concat request handed to the validator.
MaxReqSegs == 2

SegmentValues ==
    {Str("seg")}
    \cup {Dict(a) : a \in Field("url", {Str("http://s"), Str("http://t"), Str("")})}
    \cup {Dict(("url" :> Str("http://s")) @@ b @@ c) :
            b \in Field("trim_start", {Num(50), NumStr(15), Num(-5), NaN}),
            c \in Field("trim_end", {Null, Num(150), Num(50), NaN})}

\* A list of n segments that have a url only.
PlainSegments(n) == List([j \in 1..n |-> Dict("url" :> Str("http://s"))])

ConcatRequests ==
    {a @@ b @@ c :
        a \in Field("segments",
                    {Str("x"), List(<<>>), PlainSegments(50), PlainSegments(51)}
                    \cup {List(s) : s \in UNION {[1..n -> SegmentValues] : n \in 1..MaxReqSegs}}),
        b \in Field("width", {Num(4800), Num(4795), Num(40960), Num(40969)}),
        c \in Field("height", {Num(3200), Num(40970)})}

ValidatorInputs ==
    {[f |-> "validate_merge_inputs", input_data |-> d] : d \in MergeRequests}
    \cup {[f |-> "validate_parallax_inputs", input_data |-> d] : d \in ParallaxRequests}
    \cup {[f |-> "validate_overlay_pip_inputs", input_data |-> d] : d \in OverlayRequests}
    \cup {[f |-> "validate_concat_inputs", input_data |-> d] : d \in ConcatRequests}

InitValidate == PureInit(ValidatorInputs)

\* A validator applied to a request and, when it accepted it, applied once
\* more to the parameter object it returned.
Twice(first, again) == [first |-> first, again |-> again]

RevalidateMerge ==
    /\ fn_in.f = "validate_merge_inputs" /\ fn_out = NoFn
    /\ LET first == validate_merge_inputs(fn_in.input_data)
       IN  fn_out' = Twice(first, IF first.ok THEN validate_merge_inputs(first.params)
                                  ELSE first)
    /\ UNCHANGED <<bm_in, bm_out, fn_in, jobvars>>

RevalidateParallax ==
    /\ fn_in.f = "validate_parallax_inputs" /\ fn_out = NoFn
    /\ LET first == validate_parallax_inputs(fn_in.input_data)
       IN  fn_out' = Twice(first, IF first.ok THEN validate_parallax_inputs(first.params)
                                  ELSE first)
    /\ UNCHANGED <<bm_in, bm_out, fn_in, jobvars>>

RevalidateOverlay ==
    /\ fn_in.f = "validate_overlay_pip_inputs" /\ fn_out = NoFn
    /\ LET first == validate_overlay_pip_inputs(fn_in.input_data)
       IN  fn_out' = Twice(first, IF first.ok THEN validate_overlay_pip_inputs(first.params)
                                  ELSE first)
    /\ UNCHANGED <<bm_in, bm_out, fn_in, jobvars>>

RevalidateConcat ==
    /\ fn_in.f = "validate_concat_inputs" /\ fn_out = NoFn
    /\ LET first == validate_concat_inputs(fn_in.input_data)
       IN  fn_out' = Twice(first, IF first.ok THEN validate_concat_inputs(first.params)
                                  ELSE first)
    /\ UNCHANGED <<bm_in, bm_out, fn_in, jobvars>>

NextValidate ==
    \/ RevalidateMerge
    \/ RevalidateParallax
    \/ RevalidateOverlay
    \/ RevalidateConcat

SpecValidate == InitValidate /\ [][NextValidate]_vars

Validators ==
    {"validate_merge_inputs", "validate_parallax_inputs",
     "validate_overlay_pip_inputs", "validate_concat_inputs"}

\* The second validation accepted the returned object with the same values.
SameAgain == fn_out.again.ok /\ fn_out.again.params = fn_out.first.params

\* C19: each of the four validators is idempotent on its own output: whenever
\* it accepts a request, handing the parameter object it returned back to it
\* is accepted as well and returns the same normalized values.
C19_ValidatorsIdempotent ==
    (fn_out # NoFn /\ fn_in.f \in Validators /\ fn_out.first.ok) => SameAgain

\* What holds of the four: the concat validator, which returns its values
\* under the keys it reads, is idempotent on its output.
C19_ConcatIdempotent ==
    (Applied("validate_concat_inputs") /\ fn_out.first.ok) => SameAgain

\* A concat request with a trimmed segment was accepted and validated again.
C19_ConcatWitness ==
    /\ Applied("validate_concat_inputs") /\ fn_out.first.ok
    /\ \E j \in 1..Len(fn_out.first.params.segments.items) :
          fn_out.first.params.segments.items[j].d.trim_end # Null


\* ------------------------------------------ timeouts and failed engine runs
\* The engine runs of the job so far, and the answer of the last of them.
EngineRuns == {j \in 1..Len(trace) : trace[j].e = "engine"}
LastEngineRun == trace[CHOOSE j \in EngineRuns : \A k \in EngineRuns : k <= j]

\* The messages of an expired timeout and of a failed run.
TimedOutMsgs == {"Command timed out", "FFmpeg command timed out"}
FailedMsgs ==
    {"FFmpeg processing failed: ", "FFmpeg parallax processing failed: ",
     "Failed to process segment: "}

\* The job failed and its handler has answered.
Answered == pc = "done" /\ entry = "handler" /\ exc # NoExc

\* C20: in every operation an expired engine timeout and a non-zero engine
\* exit are told apart: after a timeout the exception is a timeout one and does
\* not carry the engine's stderr, after a non-zero exit it is a 'failed' one
\* whose message carries the engine's stderr and is never the timeout message,
\* and the handler's error response carries the same text.
C20_TimeoutApartFromExit ==
    (exc # NoExc /\ EngineRuns # {}) =>
        /\ LastEngineRun.r = "timeout" =>
              exc.msg \in TimedOutMsgs /\ ~exc.stderr
        /\ LastEngineRun.r = "nonzero" =>
              exc.msg \in FailedMsgs /\ exc.stderr
        /\ (Answered /\ LastEngineRun.r # "ok") => response.error = StrOf(exc)

\* A concat job whose final engine run timed out after its segments had been
\* processed: the job ended with the timeout exception.
C20_Witness ==
    /\ pc = "done" /\ op = "concat_videos" /\ Cardinality(EngineRuns) > 1
    /\ LastEngineRun.a = "main" /\ LastEngineRun.r = "timeout"
    /\ exc = Exc("Exception", "FFmpeg command timed out")


\* ------------------------------------------ parallax requests at the handler
\* The tests of zoomFactor, panDirection and intensity (validators.py:81-100)
\* on a request: TRUE when one of them fails.
MotionRejected(input_data) ==
    LET zoom_factor == ToFloat(Get(input_data, "zoomFactor", Num(12)))
        pan_direction == Get(input_data, "panDirection", Str("right"))
        intensity == ToFloat(Get(input_data, "intensity", Num(5)))
    IN  \/ ~zoom_factor.ok \/ zoom_factor.n < 11 \/ zoom_factor.n > 20
        \/ pan_direction \notin {Str("left"), Str("right"), Str("up"), Str("down"),
                                 Str("zoom_in"), Str("zoom_out")}
        \/ ~intensity.ok \/ intensity.n < 1 \/ intensity.n > 10

\* A parallax request is being served by the handler.
HandlerParallax ==
    entry = "handler" /\ event.input = "object" /\ event.data.action = Str("parallax")

\* C21: a parallax request at the handler whose zoomFactor, panDirection or
\* intensity is out of range is answered with an error and its image is never
\* fetched; and the command built for an accepted request carries the motion
\* filter generated from these values (their defaults when absent).
C21_MotionFieldsValidated ==
    HandlerParallax =>
        /\ MotionRejected(event.data) =>
              /\ \A j \in 1..Len(trace) : trace[j].e # "download"
              /\ pc = "done" => "error" \in DOMAIN response
        /\ cmd.ok => ArgAfter(cmd.cmd, "-vf") = FilterText("_generate_parallax_filter")


\* --------------------------------------------------------- the border colour
\* hex_color[i:i+2], i counted from 0.
Slice2(cs, i) == SubSeq(cs, i + 1, IF i + 2 <= Len(cs) THEN i + 2 ELSE Len(cs))

\* overlay._hex_to_rgb (overlay.py:98-101): ok is FALSE when one of the three
\* int(pair, 16) raises ValueError.
_hex_to_rgb(hex_color) ==
    LET stripped == Lstrip(hex_color)
        pairs == <<Slice2(stripped, 0), Slice2(stripped, 2), Slice2(stripped, 4)>>
    IN  [ok |-> \A j \in 1..3 : ParsesBase16(pairs[j]), pairs |-> pairs]

\* Exactly six hexadecimal digits.
SixHexDigits(cs) == Len(cs) = 6 /\ \A j \in 1..6 : cs[j] \in HexDigits

\* The borderColor of the request, with the default of the validator.
GivenBorderColor ==
    DictGet(fn_in.input_data, "borderColor", Chars(<<"#", "f", "f", "f", "f", "f", "f">>))

\* C22: the overlay validator accepts a borderColor only if, its leading '#'
\* characters removed, it is exactly six hexadecimal digits; the border_color
\* it returns is '#' followed by those digits, and _hex_to_rgb converts it.
C22_BorderColorSixHexDigits ==
    (Applied("validate_overlay_pip_inputs") /\ fn_out.first.ok) =>
        /\ GivenBorderColor.t = "chars"
        /\ SixHexDigits(Lstrip(GivenBorderColor.cs))
        /\ fn_out.first.params.border_color = Chars(<<"#">> \o Lstrip(GivenBorderColor.cs))
        /\ _hex_to_rgb(fn_out.first.params.border_color.cs).ok


\* ------------------------------------------------- what a concat request is
\* A value that is a number (or its decimal text) of at least lo and at most
\* hi tenths.
IsNumber(v) == v.t \in {"num", "numstr"}
Within(v, lo, hi) == IsNumber(v) /\ lo <= v.n /\ v.n <= hi

\* A segment object with a non-empty url, trim_start >= 0 (0 when absent) and
\* trim_end absent or greater than trim_start.
SegmentAcceptable(segment) ==
    /\ segment.t = "dict"
    /\ LET url == DictGet(segment.d, "url", Null)
           trim_start == DictGet(segment.d, "trim_start", Num(0))
           trim_end == DictGet(segment.d, "trim_end", Null)
       IN  /\ url.t = "str" /\ url.s # ""
           /\ IsNumber(trim_start) /\ trim_start.n >= 0
           /\ trim_end = Null \/ (IsNumber(trim_end) /\ trim_end.n > trim_start.n)

\* A request with 1 to 50 acceptable segments and a resolution within
\* 480..4096 by 320..4096 (1920x1080 when absent).
ConcatAcceptable(input_data) ==
    LET segments == DictGet(input_data, "segments", Null)
    IN  /\ segments.t = "list"
        /\ Len(segments.items) \in 1..50
        /\ \A j \in 1..Len(segments.items) : SegmentAcceptable(segments.items[j])
        /\ Within(DictGet(input_data, "width", Num(19200)), 4800, 40960)
        /\ Within(DictGet(input_data, "height", Num(10800)), 3200, 40960)

\* The returned segments are the given ones, one for one and in order.
SameSegments(given, returned) ==
    /\ Len(returned) = Len(given)
    /\ \A j \in 1..Len(given) : returned[j].d.url = given[j].d.url

\* C23: validate_concat_inputs succeeds exactly when segments is a list of 1
\* to 50 objects, each with a non-empty url, trim_start >= 0 and trim_end
\* absent or > trim_start, and 480 <= width <= 4096 and 320 <= height <= 4096;
\* on success the returned segments have the length and order of the given ones.
C23_ConcatAcceptedExactly ==
    Applied("validate_concat_inputs") =>
        /\ fn_out.first.ok <=> ConcatAcceptable(fn_in.input_data)
        /\ fn_out.first.ok =>
              SameSegments(fn_in.input_data.segments.items,
                           fn_out.first.params.segments.items)

\* What holds: a request the claim accepts is accepted by the validator, with
\* its segments returned one for one and in order.
C23_AcceptableIsAccepted ==
    (Applied("validate_concat_inputs") /\ ConcatAcceptable(fn_in.input_data)) =>
        /\ fn_out.first.ok
        /\ SameSegments(fn_in.input_data.segments.items,
                        fn_out.first.params.segments.items)


\* ------------------------------------------------- the order of a concat job
\* The engine invocations made before the i-th call of the job.
EnginesBefore(i) == {j \in 1..i - 1 : trace[j].e = "engine"}

\* Segment k was re-encoded with exit code 0 and left a non-empty file, before
\* the i-th call of the job.
ProcessedBefore(k, i) ==
    \E j \in 1..i - 1 :
        /\ trace[j].e = "engine" /\ trace[j].a = "segment" /\ trace[j].i = k
        /\ trace[j].r = "ok" /\ trace[j].f > 0

\* C24: in a concat job the engine is invoked for segment 0, 1, ..., n-1 and
\* then for the final concatenation, one invocation after the other; segment
\* k+1 is downloaded only after the processed file of segment k was found to
\* exist and be non-empty; the concat list is written only after all n
\* segments were processed.
C24_SegmentsOneAtATimeInOrder ==
    op = "concat_videos" =>
        \A i \in 1..Len(trace) :
            /\ (trace[i].e = "engine" /\ trace[i].a = "segment") =>
                  /\ trace[i].i = Cardinality(EnginesBefore(i))
                  /\ \A j \in EnginesBefore(i) : trace[j].a = "segment"
            /\ (trace[i].e = "engine" /\ trace[i].a = "main") =>
                  /\ Cardinality(EnginesBefore(i)) = Len(args.segments)
                  /\ \A j \in EnginesBefore(i) : trace[j].a = "segment"
            /\ (trace[i].e = "download" /\ trace[i].i > 0) =>
                  ProcessedBefore(trace[i].i - 1, i)
            /\ trace[i].e = "write_list" =>
                  \A k \in 0..Len(args.segments) - 1 : ProcessedBefore(k, i)

\* The final concatenation of a concat job of three segments has been invoked.
C24_Witness ==
    /\ op = "concat_videos" /\ Len(args.segments) = 3
    /\ \E i \in 1..Len(trace) : trace[i].e = "engine" /\ trace[i].a = "main"


\* ------------------------------------------- the timeout of the final concat
\* Most segments of a list whose timeout is computed.
MaxCount == 60

\* A list of n segments.
SegmentsOf(n) == [j \in 1..n |-> [url |-> Str("http://a"), trim_start |-> 0, trim_end |-> Null]]

TimeoutInputs == {[f |-> "concat_timeout", n |-> n] : n \in 1..MaxCount}

InitTimeout == PureInit(TimeoutInputs)

\* timeout = max(300, len(segments) * 60) (concat.py:76), for the list given
\* and for a list of one segment more.
ApplyTimeout ==
    /\ fn_in.f = "concat_timeout" /\ fn_out = NoFn
    /\ fn_out' = [timeout |-> Timeout("concat_videos",
                                      [NoArgs EXCEPT !.segments = SegmentsOf(fn_in.n)]),
                  next |-> Timeout("concat_videos",
                                   [NoArgs EXCEPT !.segments = SegmentsOf(fn_in.n + 1)])]
    /\ UNCHANGED <<bm_in, bm_out, fn_in, jobvars>>

NextTimeout == ApplyTimeout

SpecTimeout == InitTimeout /\ [][NextTimeout]_vars

MaxGraphDur == 5

GraphInputs ==
    {[f |-> "_build_merge_command", video_duration |-> vd, audio_duration |-> ad,
      video_volume |-> vv, audio_volume |-> av] :
        vd \in 0..MaxGraphDur, ad \in 0..MaxGraphDur, vv \in BuildVols, av \in BuildVols}
    \cup {[f |-> "_build_overlay_command", position |-> p, size |-> s, margin |-> m,
           border_width |-> b] :
            p \in OverlayPositions, s \in OverlaySizes, m \in OverlayMargins,
            b \in BorderWidths}

InitGraphs == PureInit(GraphInputs)

\* merge._build_merge_command applied on its own.
ApplyMergeGraph ==
    /\ fn_in.f = "_build_merge_command" /\ fn_out = NoFn
    /\ fn_out' = _build_merge_command(Rat(fn_in.video_duration, 1),
                                      Rat(fn_in.audio_duration, 1),
                                      Rat(fn_in.video_volume, 10),
                                      Rat(fn_in.audio_volume, 10))
    /\ UNCHANGED <<bm_in, bm_out, fn_in, jobvars>>

\* overlay._build_overlay_command applied on its own.
ApplyOverlayGraph ==
    /\ fn_in.f = "_build_overlay_command" /\ fn_out = NoFn
    /\ fn_out' = Built(_build_overlay_command(fn_in.position, fn_in.size, fn_in.margin,
                                              fn_in.border_width))
    /\ UNCHANGED <<bm_in, bm_out, fn_in, jobvars>>

NextGraphs == ApplyMergeGraph \/ ApplyOverlayGraph

SpecGraphs == InitGraphs /\ [][NextGraphs]_vars

\* The streams of the two inputs a stage may consume, and the stream
\* specifiers a -map may name instead of a pad label.
InputStreams == {"0:v", "0:a", "1:v", "1:a"}
StreamSpecifiers == {Lit("0:v:0"), Lit("0:a?")}

\* The graph of the command built, and the arguments that follow a -map.
BuiltGraph == GraphOf(fn_out.cmd)
Mapped == {fn_out.cmd[j + 1] : j \in {h \in 1..Len(fn_out.cmd) - 1 : fn_out.cmd[h] = Lit("-map")}}

\* A graph was built by one of the two builders.
GraphBuilt ==
    /\ fn_out # NoFn /\ fn_in.f \in {"_build_merge_command", "_build_overlay_command"}
    /\ fn_out.ok

\* C26: in every filter graph built by merge (both duration branches) and by
\* overlay (with and without border) each output pad is defined by exactly one
\* stage, every pad a stage consumes is an input stream or the output pad of an
\* earlier stage, and every pad label named by a -map is defined by the graph.
C26_PadsDefinedBeforeUse ==
    GraphBuilt =>
        /\ \A j, k \in 1..Len(BuiltGraph) : BuiltGraph[j].out = BuiltGraph[k].out => j = k
        /\ \A j \in 1..Len(BuiltGraph) : \A h \in 1..Len(BuiltGraph[j].ins) :
              \/ BuiltGraph[j].ins[h] \in InputStreams
              \/ \E k \in 1..j - 1 : BuiltGraph[k].out = BuiltGraph[j].ins[h]
        /\ \A m \in Mapped \ StreamSpecifiers :
              \E k \in 1..Len(BuiltGraph) : m = Lit("[" \o BuiltGraph[k].out \o "]")

\* The graph of an overlay with a border: six stages, two of them composites.
C26_Witness ==
    /\ GraphBuilt /\ fn_in.f = "_build_overlay_command" /\ fn_in.border_width > 0
    /\ Len(BuiltGraph) = 6


\* -------------------------------------------------- the merge builders again
\* C27: for every pair of probed durations video_duration >= 0 and
\* audio_duration >= 0, 0 included, _build_merge_command returns a command: it
\* does not fail computing speed_factor or its reciprocal.
C27_MergeCommandAlwaysBuilt ==
    (bm_out # NoBuild /\ bm_in.video_duration >= 0 /\ bm_in.audio_duration >= 0) =>
        bm_out.merge.ok

\* C28: merge._build_merge_command, VideoProcessor._build_merge_command and
\* the construction in handler.process_video give the same outcome for the
\* same durations and volumes: the same argument list, element for element, in
\* both duration branches.
C28_ThreeBuildersAgree ==
    bm_out # NoBuild =>
        /\ bm_out.processor = bm_out.merge
        /\ bm_out.handler = bm_out.merge

\* The three builders were applied in the branch of the longer video and in
\* the branch of the longer audio: here to 7 s of video and 12 s of audio.
C28_Witness ==
    /\ bm_out # NoBuild /\ bm_out.merge.ok /\ bm_out.processor.ok /\ bm_out.handler.ok
    /\ bm_in.video_duration = 7 /\ bm_in.audio_duration = 12
    /\ bm_in.video_volume = 15


\* ------------------------------------- the picture-in-picture square in place
\* Sizes, margins and border widths (pixels) of overlay requests, at and around
\* the ends of the ranges the validator accepts.
PipSizes == {49, 50, 51, 99, 425, 799, 800, 801}
PipMargins == {-1, 0, 1, 100, 199, 200, 201}
PipBorders == {-1, 0, 1, 3, 19, 20, 21}
PipPositions == {"bottom_right", "bottom_left", "top_right", "top_left", "center"}

PipInputs ==
    {[f |-> "overlay_pip",
      input_data |-> [backgroundUrl |-> Str("http://b"), overlayUrl |-> Str("http://o"),
                      position |-> Str(p), size |-> Num(10 * s), margin |-> Num(10 * m),
                      borderWidth |-> Num(10 * b)]] :
        p \in PipPositions, s \in PipSizes, m \in PipMargins, b \in PipBorders}

InitPip == PureInit(PipInputs)

\* The offset and the radii _build_overlay_command computes (overlay.py:109-111,
\* 125-126) from the parameters the validator returned, in pixels.
pip_geometry(params) ==
    LET size == params.size.n \div 10
        margin == params.margin.n \div 10
        border_width == params.border_width.n \div 10
        pos == _calculate_position(params.position.s, size, margin, 1920, 1080)
        radius == size \div 2
    IN  [x_pos |-> pos[1], y_pos |-> pos[2], size |-> size, radius |-> radius,
         border_width |-> border_width,
         inner_radius |-> IF border_width > 0 THEN inner_radius_of(radius, border_width)
                          ELSE radius]

\* The request validated and, when accepted, laid out.
ApplyPip ==
    /\ fn_in.f = "overlay_pip" /\ fn_out = NoFn
    /\ LET first == validate_overlay_pip_inputs(fn_in.input_data)
       IN  fn_out' = [first |-> first,
                      geometry |-> IF first.ok THEN pip_geometry(first.params)
                                   ELSE EmptyDict]
    /\ UNCHANGED <<bm_in, bm_out, fn_in, jobvars>>

NextPip == ApplyPip

SpecPip == InitPip /\ [][NextPip]_vars

\* C29: for every overlay parameter set the validator accepts, the square of
\* the picture-in-picture lies wholly inside the 1920x1080 canvas of
\* _calculate_position and the inner radius size // 2 - border_width of the
\* content circle is strictly positive.
C29_SquareInsideCanvas ==
    (Applied("overlay_pip") /\ fn_out.first.ok) =>
        LET g == fn_out.geometry
        IN  /\ g.x_pos >= 0 /\ g.y_pos >= 0
            /\ g.x_pos + g.size <= 1920 /\ g.y_pos + g.size <= 1080
            /\ g.inner_radius = g.size \div 2 - g.border_width
            /\ g.inner_radius > 0

\* The largest square with the largest margin, anchored bottom right, and the
\* smallest square with the widest border were laid out.
C29_Witness ==
    /\ Applied("overlay_pip") /\ fn_out.first.ok
    /\ fn_out.geometry.size = 800 /\ fn_out.geometry.x_pos = 920 /\ fn_out.geometry.y_pos = 80
    /\ fn_out.geometry.border_width = 20


\* ------------------------------------------------ a segment without its url
\* The segments of the list that have no url.
WithoutUrl == {k \in 1..Len(args.segments) : ~Truthy(args.segments[k].url)}

\* C30: concat_videos called with a list in which some segment has no url
\* raises the missing-url error before any segment of the list is downloaded
\* or handed to the engine; called with an empty list it raises before a
\* workspace directory is created.
C30_MissingUrlBeforeAnyFetch ==
    op = "concat_videos" =>
        /\ WithoutUrl # {} =>
              /\ \A i \in Idx : trace[i].e \notin {"download", "engine"}
              /\ Finished => exc = Exc("Exception", "Segment missing 'url' field")
        /\ (Finished /\ args.segments = <<>>) =>
              /\ exc = Exc("Exception", "No segments provided for concatenation")
              /\ ws = "none" /\ trace = <<>>

\* What holds: the segment without a url is itself never downloaded or handed
\* to the engine, nor is any segment after it; the segments before it are.
C30_MissingUrlStopsAtSegment ==
    (op = "concat_videos" /\ WithoutUrl # {}) =>
        \A k \in WithoutUrl : \A i \in Idx :
            trace[i].e \in {"download", "engine"} => trace[i].i < k - 1
====
